---- MODULE Spec2Model ----
(***************************************************************************)
(* State-machine model of the chat relay server of TTC-cli-messanger:      *)
(*   - models.MessageBuffer   (the Message Store)                          *)
(*   - services.ChatService   (the Broker: publish, read, long-poll wait)  *)
(*                                                                         *)
(* Message identifiers are strings "msg_<nanos>_<counter>" in the source;  *)
(* the model keeps the counter component, which alone makes them unique.   *)
(* EmptyID stands for the empty string "", UnknownID for any string that   *)
(* was never generated.                                                    *)
(***************************************************************************)
EXTENDS Integers, Sequences, FiniteSets, TLC

\* ------------------------------------------------------------- bounds
MaxSize == 3
MaxTTL == 1
MaxTime == 1
MaxIds == 3
MaxLimit == 2
BrokerSize == 2
BrokerTTL == 1
MaxSends == 2
MaxWaiters == 2
NumPollers == 2
NumClients == 2
NumSenders == 1
NumConcSenders == 2
NumConcPollers == 1
RateLimit == 1
RateBurst == 2
MaxAge == 1
MaxReqTime == 2
MaxCount == 3
NumPublishers == 1
NumReqCallers == 1
NumLockOps == 2
NumStopCalls == 2
NumSendCalls == 1

\* ChatService.GetMessages / WaitForMessages pass this limit to GetAfter.
ReadLimit == 50

EmptyID == 0
UnknownID == -1
NoPoller == 0
EmptyClient == 0
AccessKey == "secret"
\* pollLoop: const maxBackoff = 30 * time.Second
MaxBackoff == 30
\* The goroutine of cleanupLoop among the goroutines of the lock-level view.
Sweeper == 0
NoProc == -1

Ids == 1..MaxIds
Pollers == 1..NumPollers
ClientIDs == 1..NumClients
Senders == 1..NumSenders
ConcSenders == 1..NumConcSenders
ConcPollers == 1..NumConcPollers
Limits == 0..MaxLimit
Handlers == Pollers
PublishHandlers == 1..NumPublishers
PollHandlers == Handlers \ PublishHandlers
Keys == {AccessKey, "wrong"}
CallerIDs == ClientIDs \cup {EmptyClient}
ReqCallers == (1..NumReqCallers) \cup {EmptyClient}
Texts == {"", "hi"}
LockOps == 1..NumLockOps
LockProcs == LockOps \cup {Sweeper}
LockNames == {"store", "registry"}
OpKinds == {"send", "read", "wait", "waitsignal", "stats"}
StopCalls == 1..NumStopCalls
SendCalls == 1..NumSendCalls
Usernames == {"alice", "bob", "color", "id", "timestamp"}
Contents == {"hi", "yo"}
WireColors == {"[white]", "[red]"}
Colors == {"", "[red]", "red"}

VARIABLES
    maxSize,    \* MessageBuffer.maxSize, fixed by NewMessageBuffer
    ttl,        \* MessageBuffer.ttl, fixed by NewMessageBuffer
    messages,   \* MessageBuffer.messages: sequence of [id, expireAt]
    now,        \* time.Now(), in ticks
    counter,    \* utils.counter (id_generator.go)
    maxWaiters, \* ChatService.maxWaiters, fixed by NewChatService
    waiters,    \* ChatService.waiters: clientID -> handle (NoPoller: absent)
    chan,       \* per call: the buffered channel `waiter` (capacity 1);
                \*   the element is a history tag: id of the signalling Send's message
    closed,     \* per call: the channel has been closed
    wpc,        \* per call of WaitForMessages/GetMessages: position
    wclient,    \* per call: clientID argument
    wafter,     \* per call: afterID argument
    wresult,    \* per call: ids of the messages returned
    wvia,       \* per call: how the call returned
    wokenBy,    \* per call: history tag of the consumed signal
    spc,        \* per call of SendMessage: position
    smsg,       \* per call of SendMessage: msgID
    stodo,      \* per call of notifyWaiters: map keys not yet visited by range
    appended,   \* history: ids in the order MessageBuffer.Add stored them
    expired,    \* history: ids removed by cleanupLoop
    sweptAt,    \* history, kept by SweepTick: time of the last sweep (-1: none yet)
    rAfter,     \* direct MessageBuffer.GetAfter call: afterID
    rLimit,     \* direct MessageBuffer.GetAfter call: limit
    rResult,    \* direct MessageBuffer.GetAfter call: result (message sequence)
    clients,    \* AuthService.clients: clientID -> [firstSeen, lastSeen, count]
    rateLimiters, \* AuthService.rateLimiters: clientID -> [tokens, last]
    msgCounter, \* ChatService.msgCounter
    colorOf,    \* Message.Color of each message built by SendMessage, by id
    hpc,        \* per request handler: position in Handle
    hclient,    \* per request handler: client_id of the request
    hcursor,    \* per request handler: last_id of the poll request
    hresp,      \* per request handler: HTTP status written
    hrate,      \* per request handler, history: result of its CheckRateLimit call
    hbefore,    \* per publish request, history: the caller's record and limiter at arrival
    granted,    \* per limiter, history: how many calls it has allowed
    aret,       \* history: the last call of the AuthService kept, and whether it
                \* returned true (CleanupOldClients: removed a record)
    lprog,      \* lock-level view, per goroutine: the instructions it has still to run
    locks,      \* lock-level view: state of MessageBuffer.mu and ChatService.mu
    lcommitted, \* lock-level view, history: the slice as the last whole Add or sweep left it
    wireIn,     \* wire format: the Message handed to ToClientFormat
    wire,       \* wire format: the JSON object, as a map from keys to values
    parsedOut,  \* wire format: what parsePollMessages returned
    cpc,        \* NetworkClient.pollLoop: position
    cbackoff,   \* pollLoop: backoff, in seconds
    clastID,    \* NetworkClient.lastID
    csentIDs,   \* NetworkClient.sentIDs
    cqueue,     \* pollLoop: messages of the last poll not yet handled
    cdelivered, \* history: ids passed to onMessage, in order
    cmine,      \* history: ids of the messages this client published
    cstopped,   \* NetworkClient.stopped
    ccloses,    \* history: how many times close(nc.stopCh) ran
    cstoppc,    \* per call of Stop: position
    csendpc,    \* per call of SendMessage: position (of the call, then of sendAsync)
    csendid     \* per call of SendMessage: id in the server's response

storeVars == <<messages, now, appended, expired, sweptAt>>
readVars == <<rAfter, rLimit, rResult>>
waitVars == <<wpc, wclient, wafter, wresult, wvia, wokenBy>>
sendVars == <<spc, smsg, stodo>>
regVars == <<waiters, chan, closed>>
confVars == <<maxSize, ttl, maxWaiters>>
authVars == <<clients, rateLimiters, granted>>
handlerVars == <<hpc, hclient, hcursor, hresp, hrate, hbefore>>
reqVars == <<authVars, handlerVars, msgCounter, colorOf, aret>>
lockVars == <<lprog, locks, lcommitted>>
wireVars == <<wireIn, wire, parsedOut>>
cliVars == <<cpc, cbackoff, clastID, csentIDs, cqueue, cdelivered, cmine, cstopped,
             ccloses, cstoppc, csendpc, csendid>>
extVars == <<lockVars, wireVars, cliVars>>
vars == <<confVars, storeVars, readVars, waitVars, sendVars, regVars, counter, reqVars, extVars>>

\* ------------------------------------------------------------- helpers
IdsOf(msgs) == [i \in 1..Len(msgs) |-> msgs[i].id]

Range(s) == {s[i] : i \in 1..Len(s)}

Min(a, b) == IF a <= b THEN a ELSE b

\* The last n elements of s (all of s when it is shorter).
LastN(s, n) == SubSeq(s, Len(s) - Min(n, Len(s)) + 1, Len(s))

\* ------------------------------------------------------------- MessageBuffer
\* Add without the eviction of lines 130-132.
Add_NoEvict(msgs, id, t) == Append(msgs, [id |-> id, expireAt |-> t + ttl])

\* Add whose overflow branch drops the newest entry instead of the oldest.
Add_DropNewest(msgs, id, t) ==
    LET grown == Append(msgs, [id |-> id, expireAt |-> t + ttl])
    IN  IF Len(grown) > maxSize THEN SubSeq(grown, 1, Len(grown) - 1) ELSE grown

\* MessageBuffer.Add: stamp ExpireAt, append, drop the oldest on overflow.
Add(msgs, id, t) ==
    LET grown == Append(msgs, [id |-> id, expireAt |-> t + ttl])
    IN  IF Len(grown) > maxSize THEN SubSeq(grown, 2, Len(grown)) ELSE grown

\* getLastMessages that copies the first `limit` messages instead of the last.
getLastMessages_First(msgs, limit) ==
    IF Len(msgs) = 0 THEN <<>>
    ELSE IF Len(msgs) <= limit THEN msgs
    ELSE SubSeq(msgs, 1, limit)

\* MessageBuffer.getLastMessages
getLastMessages(msgs, limit) ==
    IF Len(msgs) = 0 THEN <<>>
    ELSE IF Len(msgs) <= limit THEN msgs
    ELSE SubSeq(msgs, Len(msgs) - limit + 1, Len(msgs))

\* The loop of GetAfter: Go index i+1 of the first message whose ID is afterID,
\* -1 when there is none.  (Go indexes from 0, TLA+ from 1.)
StartIdx(msgs, afterID) ==
    LET hits == {i \in 1..Len(msgs) : msgs[i].id = afterID}
    IN  IF hits = {} THEN -1
        ELSE CHOOSE i \in hits : \A j \in hits : i <= j

\* GetAfter that also applies `limit` on the cursor branch.
GetAfter_Limited(msgs, afterID, limit) ==
    IF afterID = EmptyID THEN getLastMessages(msgs, limit)
    ELSE LET startIdx == StartIdx(msgs, afterID)
         IN  IF startIdx < 0 \/ startIdx >= Len(msgs) THEN <<>>
             ELSE SubSeq(msgs, startIdx + 1, Min(Len(msgs), startIdx + limit))

\* GetAfter that falls back to the latest messages when the cursor is not found.
GetAfter_Fallback(msgs, afterID, limit) ==
    IF afterID = EmptyID THEN getLastMessages(msgs, limit)
    ELSE LET startIdx == StartIdx(msgs, afterID)
         IN  IF startIdx < 0 THEN getLastMessages(msgs, limit)
             ELSE IF startIdx >= Len(msgs) THEN <<>>
             ELSE SubSeq(msgs, startIdx + 1, Len(msgs))

\* GetAfter that starts one message too late (startIdx = i + 2).
GetAfter_SkipOne(msgs, afterID, limit) ==
    IF afterID = EmptyID THEN getLastMessages(msgs, limit)
    ELSE LET startIdx == StartIdx(msgs, afterID)
         IN  IF startIdx < 0 \/ startIdx >= Len(msgs) THEN <<>>
             ELSE SubSeq(msgs, startIdx + 2, Len(msgs))

\* MessageBuffer.GetAfter
GetAfter(msgs, afterID, limit) ==
    IF afterID = EmptyID THEN getLastMessages(msgs, limit)
    ELSE LET startIdx == StartIdx(msgs, afterID)
         IN  IF startIdx < 0 \/ startIdx >= Len(msgs) THEN <<>>
             ELSE SubSeq(msgs, startIdx + 1, Len(msgs))

\* The test of the sweep written with !Before(now): a message that expires
\* at the very time of the sweep is kept.
Survives_AtOrAfter(m, t) == m.expireAt >= t

\* One tick of cleanupLoop: keep the messages with ExpireAt.After(now).
Survives(m, t) == m.expireAt > t

\* A sweep that stops after the first message it drops.
Cleanup_DropOne(msgs, t) ==
    LET dead == {i \in 1..Len(msgs) : ~Survives(msgs[i], t)}
    IN  IF dead = {} THEN msgs
        ELSE LET d == CHOOSE i \in dead : \A j \in dead : i <= j
             IN  SubSeq(msgs, 1, d - 1) \o SubSeq(msgs, d + 1, Len(msgs))

\* A sweep that copies every message, expired or not.
Cleanup_KeepAll(msgs, t) == SelectSeq(msgs, LAMBDA m : TRUE)

\* A sweep that rebuilds the slice back to front.
Cleanup_Reversed(msgs, t) ==
    LET kept == SelectSeq(msgs, LAMBDA m : Survives(m, t))
    IN  [i \in 1..Len(kept) |-> kept[Len(kept) + 1 - i]]

Cleanup(msgs, t) == SelectSeq(msgs, LAMBDA m : Survives(m, t))

\* ------------------------------------------------------------- initial state
\* NewAuthService, and no request in flight.
NoMap == [c \in {} |-> 0]

\* No Message: the zero value.
NoMsg == [username |-> "", content |-> "", id |-> EmptyID, color |-> ""]

\* A sync.RWMutex nobody holds or waits for.
FreeLock == [writer |-> NoProc, active |-> FALSE, readers |-> {}]

\* The lock-level view at rest, nothing on the wire, NewNetworkClient.
ExtInitVars ==
    /\ lprog = [p \in LockProcs |-> <<>>]
    /\ locks = [l \in LockNames |-> FreeLock]
    /\ lcommitted = <<>>
    /\ wireIn = NoMsg
    /\ wire = NoMap
    /\ parsedOut = <<>>
    /\ cpc = "top"
    /\ cbackoff = 1
    /\ clastID = EmptyID
    /\ csentIDs = {}
    /\ cqueue = <<>>
    /\ cdelivered = <<>>
    /\ cmine = {}
    /\ cstopped = 0
    /\ ccloses = 0
    /\ cstoppc = [k \in StopCalls |-> "idle"]
    /\ csendpc = [k \in SendCalls |-> "idle"]
    /\ csendid = [k \in SendCalls |-> EmptyID]

ReqInitVars ==
    /\ clients = NoMap
    /\ rateLimiters = NoMap
    /\ granted = NoMap
    /\ msgCounter = 0
    /\ aret = [call |-> "none", ret |-> FALSE]
    /\ colorOf = NoMap
    /\ hpc = [h \in Handlers |-> "idle"]
    /\ hclient = [h \in Handlers |-> EmptyClient]
    /\ hcursor = [h \in Handlers |-> EmptyID]
    /\ hresp = [h \in Handlers |-> "none"]
    /\ hrate = [h \in Handlers |-> "none"]
    /\ hbefore = [h \in Handlers |-> <<>>]

\* Everything but the configuration of the buffer, for the SendMessage calls S.
InitFor(S) ==
    /\ messages = <<>>
    /\ now = 0
    /\ counter = 0
    /\ waiters = [c \in ClientIDs |-> NoPoller]
    /\ chan = [p \in Pollers |-> <<>>]
    /\ closed = [p \in Pollers |-> FALSE]
    /\ wpc = [p \in Pollers |-> "idle"]
    /\ wclient = [p \in Pollers |-> 1]
    /\ wafter = [p \in Pollers |-> EmptyID]
    /\ wresult = [p \in Pollers |-> <<>>]
    /\ wvia = [p \in Pollers |-> "none"]
    /\ wokenBy = [p \in Pollers |-> EmptyID]
    /\ spc = [s \in S |-> "idle"]
    /\ smsg = [s \in S |-> EmptyID]
    /\ stodo = [s \in S |-> {}]
    /\ appended = <<>>
    /\ expired = {}
    /\ sweptAt = -1
    /\ rAfter = EmptyID
    /\ rLimit = 0
    /\ rResult = <<>>
    /\ ReqInitVars
    /\ ExtInitVars

InitRest == InitFor(Senders)

\* NewServer: NewMessageBuffer(config.MaxMessages, config.MessageTTL), NewChatService.
\* The capacity and the waiter limit take every value up to the model's bounds.
Init ==
    /\ maxSize \in 1..BrokerSize
    /\ ttl = BrokerTTL
    /\ maxWaiters \in 1..MaxWaiters
    /\ InitRest

\* NewMessageBuffer(maxSize, ttl) alone, for any configuration.
StoreInit ==
    /\ maxSize \in 1..MaxSize
    /\ ttl = MaxTTL
    /\ maxWaiters = MaxWaiters
    /\ InitRest

\* ------------------------------------------------------------- store-level steps
\* The clock advances.
Tick ==
    /\ now < MaxTime
    /\ now' = now + 1
    /\ UNCHANGED <<messages, appended, expired, sweptAt, readVars, waitVars, sendVars, regVars, counter, confVars, extVars, reqVars>>

\* One iteration of MessageBuffer.cleanupLoop (the ticker fired).
CleanupTick ==
    /\ messages' = Cleanup(messages, now)
    /\ expired' = expired \cup (Range(IdsOf(messages)) \ Range(IdsOf(messages')))
    /\ UNCHANGED <<now, appended, sweptAt, readVars, waitVars, sendVars, regVars, counter, confVars, extVars, reqVars>>

\* One iteration of MessageBuffer.cleanupLoop, with the time it ran at kept.
SweepTick ==
    /\ messages' = Cleanup(messages, now)
    /\ expired' = expired \cup (Range(IdsOf(messages)) \ Range(IdsOf(messages')))
    /\ sweptAt' = now
    /\ UNCHANGED <<now, appended, readVars, waitVars, sendVars, regVars, counter, confVars, extVars, reqVars>>

\* A direct call MessageBuffer.Add(msg) with a message whose ID is fresh
\* (IDs come from utils.GenerateID and are never reused).  The buffer only
\* compares IDs for equality, so which fresh ID comes next makes no
\* difference to it: they are taken in the order 1, 2, 3, ...
StoreAdd(id) ==
    /\ id = Len(appended) + 1
    /\ messages' = Add(messages, id, now)
    /\ appended' = Append(appended, id)
    /\ UNCHANGED <<now, expired, sweptAt, readVars, waitVars, sendVars, regVars, counter, confVars, extVars, reqVars>>

\* A direct call MessageBuffer.GetAfter(afterID, limit).
StoreGetAfter(afterID, limit) ==
    /\ rAfter' = afterID
    /\ rLimit' = limit
    /\ rResult' = GetAfter(messages, afterID, limit)
    /\ UNCHANGED <<storeVars, waitVars, sendVars, regVars, counter, confVars, extVars, reqVars>>

StoreNext ==
    \/ Tick
    \/ SweepTick
    \/ \E id \in Ids : StoreAdd(id)
    \/ \E afterID \in Ids \cup {EmptyID, UnknownID}, limit \in Limits :
           StoreGetAfter(afterID, limit)

StoreSpec == StoreInit /\ [][StoreNext]_vars

\* The ticker of cleanupLoop keeps firing: a sweep that has something to
\* remove is not put off for ever.
SweepFairness == WF_vars(SweepTick)

SweepSpec == StoreInit /\ [][StoreNext]_vars /\ SweepFairness

\* ------------------------------------------------------------- ChatService
\* s.mu is read-locked for the whole of notifyWaiters; every other use of
\* s.mu (register, deregister) is one short critical section, modelled as
\* one step that needs the lock free of readers.
RLockHeld == \E s \in DOMAIN spc : spc[s] = "ranging"

\* len(s.waiters)
NumWaiters == Cardinality({c \in ClientIDs : waiters[c] # NoPoller})

\* The test written with > instead of >=.
RegistryFull_OffByOne == NumWaiters > maxWaiters

\* The test of WaitForMessages under s.mu: the registry is full.
RegistryFull == NumWaiters >= maxWaiters

\* Cursors a caller can hold: none, an id it was once given, or garbage.
Cursors == Range(appended) \cup {EmptyID, UnknownID}

\* ChatService.GetMessages(afterID): one read, returned at once.
GetMessages(p, afterID) ==
    /\ wpc[p] = "idle"
    /\ wafter' = [wafter EXCEPT ![p] = afterID]
    /\ wresult' = [wresult EXCEPT ![p] = IdsOf(GetAfter(messages, afterID, ReadLimit))]
    /\ wvia' = [wvia EXCEPT ![p] = "readnow"]
    /\ wpc' = [wpc EXCEPT ![p] = "returned"]
    /\ UNCHANGED <<wclient, wokenBy, storeVars, readVars, sendVars, regVars, counter, confVars, extVars, reqVars>>

\* WaitForMessages that tests the capacity before its first read.
WaitStart_CapacityFirst(p, clientID, afterID) ==
    /\ wpc[p] = "idle"
    /\ LET first == IdsOf(GetAfter(messages, afterID, ReadLimit))
       IN  /\ wclient' = [wclient EXCEPT ![p] = clientID]
           /\ wafter' = [wafter EXCEPT ![p] = afterID]
           /\ IF RegistryFull
              THEN /\ wresult' = [wresult EXCEPT ![p] = <<>>]
                   /\ wvia' = [wvia EXCEPT ![p] = "busy"]
                   /\ wpc' = [wpc EXCEPT ![p] = "returned"]
                   /\ UNCHANGED <<chan, closed>>
              ELSE /\ wresult' = [wresult EXCEPT ![p] = first]
                   /\ IF Len(first) > 0
                      THEN /\ wvia' = [wvia EXCEPT ![p] = "immediate"]
                           /\ wpc' = [wpc EXCEPT ![p] = "returned"]
                           /\ UNCHANGED <<chan, closed>>
                      ELSE /\ wpc' = [wpc EXCEPT ![p] = "register"]
                           /\ chan' = [chan EXCEPT ![p] = <<>>]
                           /\ closed' = [closed EXCEPT ![p] = FALSE]
                           /\ UNCHANGED wvia
    /\ UNCHANGED <<wokenBy, waiters, storeVars, readVars, sendVars, counter, confVars, extVars, reqVars>>

\* WaitForMessages that stores its channel in the registry before its first read.
WaitStart_RegisterFirst(p, clientID, afterID) ==
    /\ wpc[p] = "idle"
    /\ ~RLockHeld
    /\ LET first == IdsOf(GetAfter(messages, afterID, ReadLimit))
       IN  /\ wclient' = [wclient EXCEPT ![p] = clientID]
           /\ wafter' = [wafter EXCEPT ![p] = afterID]
           /\ wresult' = [wresult EXCEPT ![p] = first]
           /\ IF Len(first) > 0
              THEN /\ wvia' = [wvia EXCEPT ![p] = "immediate"]
                   /\ wpc' = [wpc EXCEPT ![p] = "returned"]
                   /\ UNCHANGED <<chan, closed, waiters>>
              ELSE /\ wpc' = [wpc EXCEPT ![p] = "register"]
                   /\ chan' = [chan EXCEPT ![p] = <<>>]
                   /\ closed' = [closed EXCEPT ![p] = FALSE]
                   /\ waiters' = [waiters EXCEPT ![clientID] = p]
                   /\ UNCHANGED wvia
    /\ UNCHANGED <<wokenBy, storeVars, readVars, sendVars, counter, confVars, extVars, reqVars>>

\* WaitForMessages, lines 61-65: the first read; a non-empty result returns,
\* an empty one creates the channel `waiter`.
WaitStart(p, clientID, afterID) ==
    /\ wpc[p] = "idle"
    /\ LET first == IdsOf(GetAfter(messages, afterID, ReadLimit))
       IN  /\ wclient' = [wclient EXCEPT ![p] = clientID]
           /\ wafter' = [wafter EXCEPT ![p] = afterID]
           /\ wresult' = [wresult EXCEPT ![p] = first]
           /\ IF Len(first) > 0
              THEN /\ wvia' = [wvia EXCEPT ![p] = "immediate"]
                   /\ wpc' = [wpc EXCEPT ![p] = "returned"]
                   /\ UNCHANGED <<chan, closed>>
              ELSE /\ wpc' = [wpc EXCEPT ![p] = "register"]
                   /\ chan' = [chan EXCEPT ![p] = <<>>]
                   /\ closed' = [closed EXCEPT ![p] = FALSE]
                   /\ UNCHANGED wvia
    /\ UNCHANGED <<wokenBy, waiters, storeVars, readVars, sendVars, counter, confVars, extVars, reqVars>>

\* WaitForMessages with the deferred delete installed before the capacity
\* test: the Busy return deletes the entry stored under clientID.
WaitRegister_DeferFirst(p) ==
    /\ wpc[p] = "register"
    /\ ~RLockHeld
    /\ IF RegistryFull
       THEN /\ wvia' = [wvia EXCEPT ![p] = "busy"]
            /\ wpc' = [wpc EXCEPT ![p] = "returned"]
            /\ waiters' = [waiters EXCEPT ![wclient[p]] = NoPoller]
       ELSE /\ waiters' = [waiters EXCEPT ![wclient[p]] = p]
            /\ wpc' = [wpc EXCEPT ![p] = "select"]
            /\ UNCHANGED wvia
    /\ UNCHANGED <<wclient, wafter, wresult, wokenBy, chan, closed,
                   storeVars, readVars, sendVars, counter, confVars, extVars, reqVars>>

\* WaitForMessages that waits for a free slot instead of failing when the
\* registry is full.
WaitRegister_WaitForSlot(p) ==
    /\ wpc[p] = "register"
    /\ ~RLockHeld
    /\ ~RegistryFull
    /\ waiters' = [waiters EXCEPT ![wclient[p]] = p]
    /\ wpc' = [wpc EXCEPT ![p] = "select"]
    /\ UNCHANGED <<wclient, wafter, wresult, wvia, wokenBy, chan, closed,
                   storeVars, readVars, sendVars, counter, confVars, extVars, reqVars>>

\* WaitForMessages, lines 67-73: under s.mu, fail when the registry is full,
\* else store the channel under clientID.
WaitRegister(p) ==
    /\ wpc[p] = "register"
    /\ ~RLockHeld
    /\ IF RegistryFull
       THEN /\ wvia' = [wvia EXCEPT ![p] = "busy"]
            /\ wpc' = [wpc EXCEPT ![p] = "returned"]
            /\ UNCHANGED waiters
       ELSE /\ waiters' = [waiters EXCEPT ![wclient[p]] = p]
            /\ wpc' = [wpc EXCEPT ![p] = "select"]
            /\ UNCHANGED wvia
    /\ UNCHANGED <<wclient, wafter, wresult, wokenBy, chan, closed,
                   storeVars, readVars, sendVars, counter, confVars, extVars, reqVars>>

\* select, case <-waiter: the signal is taken from the channel.
WaitSignal(p) ==
    /\ wpc[p] = "select"
    /\ Len(chan[p]) > 0
    /\ wokenBy' = [wokenBy EXCEPT ![p] = Head(chan[p])]
    /\ chan' = [chan EXCEPT ![p] = <<>>]
    /\ wpc' = [wpc EXCEPT ![p] = "reread"]
    /\ UNCHANGED <<wclient, wafter, wresult, wvia, waiters, closed,
                   storeVars, readVars, sendVars, counter, confVars, extVars, reqVars>>

\* line 84: the second read, after a signal.
WaitReread(p) ==
    /\ wpc[p] = "reread"
    /\ wresult' = [wresult EXCEPT ![p] = IdsOf(GetAfter(messages, wafter[p], ReadLimit))]
    /\ wvia' = [wvia EXCEPT ![p] = "signal"]
    /\ wpc' = [wpc EXCEPT ![p] = "defer"]
    /\ UNCHANGED <<wclient, wafter, wokenBy, storeVars, readVars, sendVars, regVars, counter, confVars, extVars, reqVars>>

\* The timeout case written like the signal case: it reads the store again.
WaitTimeout_Reread(p) ==
    /\ wpc[p] = "select"
    /\ wresult' = [wresult EXCEPT ![p] = IdsOf(GetAfter(messages, wafter[p], ReadLimit))]
    /\ wvia' = [wvia EXCEPT ![p] = "timeout"]
    /\ wpc' = [wpc EXCEPT ![p] = "defer"]
    /\ UNCHANGED <<wclient, wafter, wokenBy, storeVars, readVars, sendVars, regVars, counter, confVars, extVars, reqVars>>

\* select, case <-time.After(timeout): the timer fired.
WaitTimeout(p) ==
    /\ wpc[p] = "select"
    /\ wresult' = [wresult EXCEPT ![p] = <<>>]
    /\ wvia' = [wvia EXCEPT ![p] = "timeout"]
    /\ wpc' = [wpc EXCEPT ![p] = "defer"]
    /\ UNCHANGED <<wclient, wafter, wokenBy, storeVars, readVars, sendVars, regVars, counter, confVars, extVars, reqVars>>

\* WaitForMessages whose delete runs on the signal path only: a call that
\* timed out leaves its entry in the map.
WaitDeregister_SignalOnly(p) ==
    /\ wpc[p] = "defer"
    /\ ~RLockHeld
    /\ waiters' = IF wvia[p] = "signal"
                  THEN [waiters EXCEPT ![wclient[p]] = NoPoller]
                  ELSE waiters
    /\ wpc' = [wpc EXCEPT ![p] = "close"]
    /\ wokenBy' = [wokenBy EXCEPT ![p] = EmptyID]
    /\ UNCHANGED <<wclient, wafter, wresult, wvia, chan, closed,
                   storeVars, readVars, sendVars, counter, confVars, extVars, reqVars>>

\* The deferred function closing the channel before the delete.
WaitDeregister_CloseFirst(p) ==
    /\ wpc[p] = "defer"
    /\ closed' = [closed EXCEPT ![p] = TRUE]
    /\ wpc' = [wpc EXCEPT ![p] = "close"]
    /\ wokenBy' = [wokenBy EXCEPT ![p] = EmptyID]
    /\ UNCHANGED <<wclient, wafter, wresult, wvia, chan, waiters,
                   storeVars, readVars, sendVars, counter, confVars, extVars, reqVars>>

\* The deferred function, lines 76-78: delete(s.waiters, clientID) under s.mu.
WaitDeregister(p) ==
    /\ wpc[p] = "defer"
    /\ ~RLockHeld
    /\ waiters' = [waiters EXCEPT ![wclient[p]] = NoPoller]
    /\ wpc' = [wpc EXCEPT ![p] = "close"]
    /\ wokenBy' = [wokenBy EXCEPT ![p] = EmptyID]
    /\ UNCHANGED <<wclient, wafter, wresult, wvia, chan, closed,
                   storeVars, readVars, sendVars, counter, confVars, extVars, reqVars>>

\* The deferred function, line 79: close(waiter); the call returns.
WaitClose(p) ==
    /\ wpc[p] = "close"
    /\ closed' = [closed EXCEPT ![p] = TRUE]
    /\ wpc' = [wpc EXCEPT ![p] = "returned"]
    /\ UNCHANGED <<wclient, wafter, wresult, wvia, wokenBy, waiters, chan,
                   storeVars, readVars, sendVars, counter, confVars, extVars, reqVars>>

\* The caller has taken the result; the call's locals are gone.
WaitReturn(p) ==
    /\ wpc[p] = "returned"
    /\ wpc' = [wpc EXCEPT ![p] = "idle"]
    /\ wclient' = [wclient EXCEPT ![p] = 1]
    /\ wafter' = [wafter EXCEPT ![p] = EmptyID]
    /\ wresult' = [wresult EXCEPT ![p] = <<>>]
    /\ wvia' = [wvia EXCEPT ![p] = "none"]
    /\ wokenBy' = [wokenBy EXCEPT ![p] = EmptyID]
    /\ chan' = [chan EXCEPT ![p] = <<>>]
    /\ closed' = [closed EXCEPT ![p] = FALSE]
    /\ UNCHANGED <<waiters, storeVars, readVars, sendVars, counter, confVars, extVars, reqVars>>

\* SendMessage, lines 38-47, with utils.GenerateID: atomic.AddUint64(&counter, 1).
SendGenerate(s) ==
    /\ spc[s] = "idle"
    /\ counter < MaxSends
    /\ counter' = counter + 1
    /\ smsg' = [smsg EXCEPT ![s] = counter + 1]
    /\ spc' = [spc EXCEPT ![s] = "add"]
    /\ UNCHANGED <<stodo, storeVars, readVars, waitVars, regVars, confVars, extVars, reqVars>>

\* SendMessage that goes on to notifyWaiters without having stored the message.
SendAdd_NotStored(s) ==
    /\ spc[s] = "add"
    /\ spc' = [spc EXCEPT ![s] = "notify"]
    /\ UNCHANGED <<smsg, stodo, storeVars, readVars, waitVars, regVars, counter, confVars, extVars, reqVars>>

\* SendMessage, line 49: s.buffer.Add(msg).
SendAdd(s) ==
    /\ spc[s] = "add"
    /\ messages' = Add(messages, smsg[s], now)
    /\ appended' = Append(appended, smsg[s])
    /\ spc' = [spc EXCEPT ![s] = "notify"]
    /\ UNCHANGED <<smsg, stodo, now, expired, sweptAt, readVars, waitVars, regVars, counter, confVars, extVars, reqVars>>

\* notifyWaiters, lines 91-94: RLock, and range starts over the map.
NotifyBegin(s) ==
    /\ spc[s] = "notify"
    /\ spc' = [spc EXCEPT ![s] = "ranging"]
    /\ stodo' = [stodo EXCEPT ![s] = {c \in ClientIDs : waiters[c] # NoPoller}]
    /\ UNCHANGED <<smsg, storeVars, readVars, waitVars, regVars, counter, confVars, extVars, reqVars>>

\* The non-blocking send of lines 95-98 on a channel of capacity 1.
TrySend(ch, tag) == IF Len(ch) = 0 THEN <<tag>> ELSE ch

\* notifyWaiters that leaves the loop after its first iteration.
NotifyOne_Break(s, c) ==
    /\ spc[s] = "ranging"
    /\ c \in stodo[s]
    /\ chan' = [chan EXCEPT ![waiters[c]] = TrySend(@, smsg[s])]
    /\ stodo' = [stodo EXCEPT ![s] = {}]
    /\ UNCHANGED <<spc, smsg, waiters, closed, storeVars, readVars, waitVars, counter, confVars, extVars, reqVars>>

\* notifyWaiters with a plain send `waiter <- struct{}{}`: it waits until the
\* channel has room.
NotifyOne_Blocking(s, c) ==
    /\ spc[s] = "ranging"
    /\ c \in stodo[s]
    /\ Len(chan[waiters[c]]) = 0
    /\ chan' = [chan EXCEPT ![waiters[c]] = <<smsg[s]>>]
    /\ stodo' = [stodo EXCEPT ![s] = @ \ {c}]
    /\ UNCHANGED <<spc, smsg, waiters, closed, storeVars, readVars, waitVars, counter, confVars, extVars, reqVars>>

\* notifyWaiters, one iteration of the range (Go visits map keys in any order).
NotifyOne(s, c) ==
    /\ spc[s] = "ranging"
    /\ c \in stodo[s]
    /\ chan' = [chan EXCEPT ![waiters[c]] = TrySend(@, smsg[s])]
    /\ stodo' = [stodo EXCEPT ![s] = @ \ {c}]
    /\ UNCHANGED <<spc, smsg, waiters, closed, storeVars, readVars, waitVars, counter, confVars, extVars, reqVars>>

\* notifyWaiters returns (RUnlock), and SendMessage with it.
NotifyEnd(s) ==
    /\ spc[s] = "ranging"
    /\ stodo[s] = {}
    /\ spc' = [spc EXCEPT ![s] = "idle"]
    /\ smsg' = [smsg EXCEPT ![s] = EmptyID]
    /\ UNCHANGED <<stodo, storeVars, readVars, waitVars, regVars, counter, confVars, extVars, reqVars>>

Next ==
    \/ Tick
    \/ CleanupTick
    \/ \E p \in Pollers, a \in Cursors : GetMessages(p, a)
    \/ \E p \in Pollers, c \in ClientIDs, a \in Cursors : WaitStart(p, c, a)
    \/ \E p \in Pollers : WaitRegister(p)
    \/ \E p \in Pollers : WaitSignal(p)
    \/ \E p \in Pollers : WaitReread(p)
    \/ \E p \in Pollers : WaitTimeout(p)
    \/ \E p \in Pollers : WaitDeregister(p)
    \/ \E p \in Pollers : WaitClose(p)
    \/ \E p \in Pollers : WaitReturn(p)
    \/ \E s \in Senders : SendGenerate(s)
    \/ \E s \in Senders : SendAdd(s)
    \/ \E s \in Senders : NotifyBegin(s)
    \/ \E s \in Senders, c \in ClientIDs : NotifyOne(s, c)
    \/ \E s \in Senders : NotifyEnd(s)

Spec == Init /\ [][Next]_vars

\* ------------------------------------------------------------- long-poll runs
\* The server under clients that poll without a cursor (the first poll of a
\* client): the cursor decides what a read returns and nothing else, and the
\* empty cursor gives both outcomes of the first read.
PollNext ==
    \/ Tick
    \/ CleanupTick
    \/ \E p \in Pollers, c \in ClientIDs : WaitStart(p, c, EmptyID)
    \/ \E p \in Pollers : WaitRegister(p)
    \/ \E p \in Pollers : WaitSignal(p)
    \/ \E p \in Pollers : WaitReread(p)
    \/ \E p \in Pollers : WaitTimeout(p)
    \/ \E p \in Pollers : WaitDeregister(p)
    \/ \E p \in Pollers : WaitClose(p)
    \/ \E p \in Pollers : WaitReturn(p)
    \/ \E s \in Senders : SendGenerate(s)
    \/ \E s \in Senders : SendAdd(s)
    \/ \E s \in Senders : NotifyBegin(s)
    \/ \E s \in Senders, c \in ClientIDs : NotifyOne(s, c)
    \/ \E s \in Senders : NotifyEnd(s)

\* The goroutine of a WaitForMessages call that can take its next step takes
\* it (s.mu is held in bounded critical sections only), and the timer of a
\* suspended call fires.  Nothing makes a client start a call.
WaitFairness ==
    \A p \in Pollers :
        /\ WF_vars(WaitRegister(p))
        /\ WF_vars(WaitReread(p))
        /\ WF_vars(WaitTimeout(p))
        /\ WF_vars(WaitDeregister(p))
        /\ WF_vars(WaitClose(p))

\* The goroutine of a SendMessage call that can take its next step takes it.
SendFairness ==
    \A s \in Senders :
        /\ WF_vars(SendAdd(s))
        /\ WF_vars(NotifyBegin(s))
        /\ WF_vars(\E c \in ClientIDs : NotifyOne(s, c))
        /\ WF_vars(NotifyEnd(s))

\* Every goroutine is scheduled.
PollSpec == Init /\ [][PollNext]_vars /\ WaitFairness /\ SendFairness

\* Only the Sends are scheduled: a waiter may stop anywhere, for ever.
StuckWaitersSpec == Init /\ [][PollNext]_vars /\ SendFairness

\* ------------------------------------------------------------- concurrent Sends
\* The server with several SendMessage calls in flight at once (each HTTP
\* request runs in its own goroutine) and one long-polling client.
ConcInit ==
    /\ maxSize \in 1..BrokerSize
    /\ ttl = BrokerTTL
    /\ maxWaiters = MaxWaiters
    /\ InitFor(ConcSenders)

ConcNext ==
    \/ Tick
    \/ SweepTick
    \/ \E p \in ConcPollers, a \in Cursors : GetMessages(p, a)
    \/ \E p \in ConcPollers, c \in ClientIDs : WaitStart(p, c, EmptyID)
    \/ \E p \in ConcPollers : WaitRegister(p)
    \/ \E p \in ConcPollers : WaitSignal(p)
    \/ \E p \in ConcPollers : WaitReread(p)
    \/ \E p \in ConcPollers : WaitTimeout(p)
    \/ \E p \in ConcPollers : WaitDeregister(p)
    \/ \E p \in ConcPollers : WaitClose(p)
    \/ \E p \in ConcPollers : WaitReturn(p)
    \/ \E s \in ConcSenders : SendGenerate(s)
    \/ \E s \in ConcSenders : SendAdd(s)
    \/ \E s \in ConcSenders : NotifyBegin(s)
    \/ \E s \in ConcSenders, c \in ClientIDs : NotifyOne(s, c)
    \/ \E s \in ConcSenders : NotifyEnd(s)

ConcSpec == ConcInit /\ [][ConcNext]_vars

\* ------------------------------------------------------------- AuthService
\* Go maps: a function whose domain is the set of keys present.
Put(m, k, v) == [x \in DOMAIN m \cup {k} |-> IF x = k THEN v ELSE m[x]]

Without(m, K) == [x \in DOMAIN m \ K |-> m[x]]

Only(m, k) == [x \in DOMAIN m \cap {k} |-> m[x]]

\* rate.NewLimiter(s.rateLimit, s.rateBurst): a token bucket, full at first.
NewLimiter(t) == [tokens |-> RateBurst, last |-> t]

\* The tokens of bucket l at time t: RateLimit more per unit of time since
\* the last call it allowed, never more than RateBurst.
Advance(l, t) == Min(RateBurst, l.tokens + (t - l.last) * RateLimit)

\* limiter.Allow(): a token is there to take.
LimiterAllows(l, t) == Advance(l, t) >= 1

\* limiter.Allow() returning true: the token is taken.
LimiterTake(l, t) == [tokens |-> Advance(l, t) - 1, last |-> t]

ValidAccess_KeyOnly(key, clientID) == key = AccessKey

\* ValidateAccess, lines 37-43: the two tests that return false.
ValidAccess(key, clientID) == key = AccessKey /\ clientID # EmptyClient

\* Seen with a known caller's record made anew.
Seen_Anew(cl, c, t) == Put(cl, c, [firstSeen |-> t, lastSeen |-> t, count |-> 1])

\* ValidateAccess, lines 49-58: the clients map after a valid call.
Seen(cl, c, t) ==
    IF c \in DOMAIN cl
    THEN Put(cl, c, [cl[c] EXCEPT !.lastSeen = t, !.count = @ + 1])
    ELSE Put(cl, c, [firstSeen |-> t, lastSeen |-> t, count |-> 1])

\* AuthService.ValidateAccess(key, clientID), its effect on the service.
ValidateAccess(key, c) ==
    IF ValidAccess(key, c)
    THEN /\ clients' = Seen(clients, c, now)
         /\ rateLimiters' = IF c \in DOMAIN clients THEN rateLimiters
                            ELSE Put(rateLimiters, c, NewLimiter(now))
         /\ granted' = IF c \in DOMAIN clients THEN granted
                       ELSE Put(granted, c, 0)
    ELSE UNCHANGED authVars

RateAllowed_KnownOnly(c) ==
    c \in DOMAIN rateLimiters /\ LimiterAllows(rateLimiters[c], now)

\* AuthService.CheckRateLimit(clientID), its result.
RateAllowed(c) ==
    c \notin DOMAIN rateLimiters \/ LimiterAllows(rateLimiters[c], now)

\* CheckRateLimit with the token left in the bucket.
CheckRateLimit_KeepToken(c) ==
    IF c \in DOMAIN rateLimiters /\ LimiterAllows(rateLimiters[c], now)
    THEN /\ granted' = Put(granted, c, granted[c] + 1)
         /\ UNCHANGED <<clients, rateLimiters>>
    ELSE UNCHANGED authVars

\* AuthService.CheckRateLimit(clientID), its effect on the service.
CheckRateLimit(c) ==
    IF c \in DOMAIN rateLimiters /\ LimiterAllows(rateLimiters[c], now)
    THEN /\ rateLimiters' = Put(rateLimiters, c, LimiterTake(rateLimiters[c], now))
         /\ granted' = Put(granted, c, granted[c] + 1)
         /\ UNCHANGED clients
    ELSE UNCHANGED authVars

Stale_AtOrOver(cl, t) == {c \in DOMAIN cl : t - cl[c].lastSeen >= MaxAge}

\* The test of CleanupOldClients, line 84: now.Sub(client.LastSeen) > maxAge.
Stale(cl, t) == {c \in DOMAIN cl : t - cl[c].lastSeen > MaxAge}

\* ClientSweep deleting the records only.
ClientSweep_RecordsOnly ==
    /\ clients' = Without(clients, Stale(clients, now))
    /\ aret' = [call |-> "CleanupOldClients", ret |-> Stale(clients, now) # {}]
    /\ UNCHANGED <<rateLimiters, granted, handlerVars, msgCounter, colorOf, storeVars,
                   readVars, waitVars, sendVars, regVars, counter, confVars, extVars>>

\* One tick of the goroutine of CleanupOldClients.
ClientSweep ==
    /\ clients' = Without(clients, Stale(clients, now))
    /\ rateLimiters' = Without(rateLimiters, Stale(clients, now))
    /\ granted' = Without(granted, Stale(clients, now))
    /\ aret' = [call |-> "CleanupOldClients", ret |-> Stale(clients, now) # {}]
    /\ UNCHANGED <<handlerVars, msgCounter, colorOf, storeVars, readVars, waitVars,
                   sendVars, regVars, counter, confVars, extVars>>

\* The clock of the AuthService and of the request layer.
ReqTick ==
    /\ now < MaxReqTime
    /\ now' = now + 1
    /\ UNCHANGED <<messages, appended, expired, sweptAt, readVars, waitVars, sendVars,
                   regVars, counter, confVars, extVars, reqVars>>

\* A direct call AuthService.ValidateAccess(key, clientID).
AuthValidate(key, c) ==
    /\ c \in DOMAIN clients => clients[c].count < MaxCount
    /\ ValidateAccess(key, c)
    /\ aret' = [call |-> "ValidateAccess", ret |-> ValidAccess(key, c)]
    /\ UNCHANGED <<handlerVars, msgCounter, colorOf, storeVars, readVars, waitVars,
                   sendVars, regVars, counter, confVars, extVars>>

\* A direct call AuthService.CheckRateLimit(clientID).
AuthCheckRate(c) ==
    /\ CheckRateLimit(c)
    /\ aret' = [call |-> "CheckRateLimit", ret |-> RateAllowed(c)]
    /\ UNCHANGED <<handlerVars, msgCounter, colorOf, storeVars, readVars, waitVars,
                   sendVars, regVars, counter, confVars, extVars>>

\* NewAuthService alone.
AuthInit ==
    /\ maxSize = BrokerSize
    /\ ttl = BrokerTTL
    /\ maxWaiters = MaxWaiters
    /\ InitFor(Senders)

AuthNext ==
    \/ ReqTick
    \/ ClientSweep
    \/ \E key \in Keys, c \in CallerIDs : AuthValidate(key, c)
    \/ \E c \in CallerIDs : AuthCheckRate(c)

AuthSpec == AuthInit /\ [][AuthNext]_vars

\* ------------------------------------------------------------- request handlers
\* utils.validColors
ValidColors ==
    {"[red]", "[green]", "[yellow]", "[blue]", "[magenta]", "[cyan]",
     "[white]", "[black]", ""}

IsValidColor(color) == color \in ValidColors

\* SendController.Handle, lines 329-331.
HandleColor_Keep(color) == color

HandleColor(color) == IF color = "" THEN "[white]" ELSE color

\* SendMessage, lines 34-36.
SendColor(color) ==
    IF color # "" /\ ~IsValidColor(color) THEN "[white]" ELSE color

\* Publish requests between ValidateAccess and SendMessage.
InFlight == Cardinality({g \in Handlers : hpc[g] \in {"rate", "send"}})

\* SendController.Handle, lines 318-321: ValidateAccess.
PublishAuth(h, key, c) ==
    /\ hpc[h] = "idle"
    /\ counter + InFlight < MaxSends
    /\ c \in DOMAIN clients => clients[c].count < MaxCount
    /\ hclient' = [hclient EXCEPT ![h] = c]
    /\ hbefore' = [hbefore EXCEPT ![h] = <<Only(clients, c), Only(rateLimiters, c)>>]
    /\ ValidateAccess(key, c)
    /\ IF ValidAccess(key, c)
       THEN /\ hpc' = [hpc EXCEPT ![h] = "rate"]
            /\ UNCHANGED hresp
       ELSE /\ hpc' = [hpc EXCEPT ![h] = "done"]
            /\ hresp' = [hresp EXCEPT ![h] = "401"]
    /\ UNCHANGED <<hcursor, hrate, msgCounter, colorOf, storeVars, readVars,
                   waitVars, sendVars, regVars, counter, confVars, extVars, aret>>

\* SendController.Handle, lines 323-326: CheckRateLimit.
PublishRate(h) ==
    /\ hpc[h] = "rate"
    /\ CheckRateLimit(hclient[h])
    /\ IF RateAllowed(hclient[h])
       THEN /\ hpc' = [hpc EXCEPT ![h] = "send"]
            /\ hrate' = [hrate EXCEPT ![h] = "allowed"]
            /\ UNCHANGED hresp
       ELSE /\ hpc' = [hpc EXCEPT ![h] = "done"]
            /\ hrate' = [hrate EXCEPT ![h] = "limited"]
            /\ hresp' = [hresp EXCEPT ![h] = "429"]
    /\ UNCHANGED <<hclient, hcursor, hbefore, msgCounter, colorOf, storeVars,
                   readVars, waitVars, sendVars, regVars, counter, confVars, extVars, aret>>

\* PublishSend with the message counter advanced before the validation.
PublishSend_CountFirst(h, user, content, color) ==
    /\ hpc[h] = "send"
    /\ hpc' = [hpc EXCEPT ![h] = "done"]
    /\ msgCounter' = msgCounter + 1
    /\ IF user = "" \/ content = ""
       THEN /\ hresp' = [hresp EXCEPT ![h] = "500"]
            /\ UNCHANGED <<colorOf, counter, messages, appended, chan>>
       ELSE /\ hresp' = [hresp EXCEPT ![h] = "200"]
            /\ counter' = counter + 1
            /\ colorOf' = Put(colorOf, counter + 1, SendColor(HandleColor(color)))
            /\ messages' = Add(messages, counter + 1, now)
            /\ appended' = Append(appended, counter + 1)
            /\ chan' = [p \in DOMAIN chan |->
                          IF \E c \in ClientIDs : waiters[c] = p
                          THEN TrySend(chan[p], counter + 1)
                          ELSE chan[p]]
    /\ UNCHANGED <<hclient, hcursor, hrate, hbefore, authVars, now, expired, sweptAt,
                   waiters, closed, readVars, waitVars, sendVars, confVars, extVars, aret>>

\* SendController.Handle, lines 328-347: the default color, then the whole of
\* ChatService.SendMessage (validation, color, counters, Add, notifyWaiters)
\* and the response.
PublishSend(h, user, content, color) ==
    /\ hpc[h] = "send"
    /\ hpc' = [hpc EXCEPT ![h] = "done"]
    /\ IF user = "" \/ content = ""
       THEN /\ hresp' = [hresp EXCEPT ![h] = "500"]
            /\ UNCHANGED <<msgCounter, colorOf, counter, messages, appended, chan>>
       ELSE /\ hresp' = [hresp EXCEPT ![h] = "200"]
            /\ msgCounter' = msgCounter + 1
            /\ counter' = counter + 1
            /\ colorOf' = Put(colorOf, counter + 1, SendColor(HandleColor(color)))
            /\ messages' = Add(messages, counter + 1, now)
            /\ appended' = Append(appended, counter + 1)
            /\ chan' = [p \in DOMAIN chan |->
                          IF \E c \in ClientIDs : waiters[c] = p
                          THEN TrySend(chan[p], counter + 1)
                          ELSE chan[p]]
    /\ UNCHANGED <<hclient, hcursor, hrate, hbefore, authVars, now, expired, sweptAt,
                   waiters, closed, readVars, waitVars, sendVars, confVars, extVars, aret>>

\* PollController.Handle, lines 236-239: ValidateAccess.
PollAuth(h, key, c) ==
    /\ hpc[h] = "idle"
    /\ c \in DOMAIN clients => clients[c].count < MaxCount
    /\ hclient' = [hclient EXCEPT ![h] = c]
    /\ ValidateAccess(key, c)
    /\ IF ValidAccess(key, c)
       THEN /\ hpc' = [hpc EXCEPT ![h] = "wait"]
            /\ UNCHANGED hresp
       ELSE /\ hpc' = [hpc EXCEPT ![h] = "done"]
            /\ hresp' = [hresp EXCEPT ![h] = "401"]
    /\ UNCHANGED <<hcursor, hrate, hbefore, msgCounter, colorOf, storeVars,
                   readVars, waitVars, sendVars, regVars, counter, confVars, extVars, aret>>

\* PollController.Handle, line 241: WaitForMessages up to its select (first
\* read, capacity test, registration).
PollWait(h, cursor) ==
    /\ hpc[h] = "wait"
    /\ hcursor' = [hcursor EXCEPT ![h] = cursor]
    /\ IF Len(GetAfter(messages, cursor, ReadLimit)) > 0
       THEN /\ hpc' = [hpc EXCEPT ![h] = "done"]
            /\ hresp' = [hresp EXCEPT ![h] = "200"]
            /\ UNCHANGED <<waiters, chan>>
       ELSE IF RegistryFull
       THEN /\ hpc' = [hpc EXCEPT ![h] = "done"]
            /\ hresp' = [hresp EXCEPT ![h] = "500"]
            /\ UNCHANGED <<waiters, chan>>
       ELSE /\ hpc' = [hpc EXCEPT ![h] = "suspended"]
            /\ waiters' = [waiters EXCEPT ![hclient[h]] = h]
            /\ chan' = [chan EXCEPT ![h] = <<>>]
            /\ UNCHANGED hresp
    /\ UNCHANGED <<hclient, hrate, hbefore, authVars, msgCounter, colorOf, closed,
                   storeVars, readVars, waitVars, sendVars, counter, confVars, extVars, aret>>

\* WaitForMessages from the signal to its return, and the response.
PollSignal(h) ==
    /\ hpc[h] = "suspended"
    /\ Len(chan[h]) > 0
    /\ chan' = [chan EXCEPT ![h] = <<>>]
    /\ waiters' = [waiters EXCEPT ![hclient[h]] = NoPoller]
    /\ hpc' = [hpc EXCEPT ![h] = "done"]
    /\ hresp' = [hresp EXCEPT ![h] =
                   IF Len(GetAfter(messages, hcursor[h], ReadLimit)) > 0
                   THEN "200" ELSE "204"]
    /\ UNCHANGED <<hclient, hcursor, hrate, hbefore, authVars, msgCounter, colorOf,
                   closed, storeVars, readVars, waitVars, sendVars, counter, confVars, extVars, aret>>

\* WaitForMessages from the timeout to its return, and the response.
PollTimeout(h) ==
    /\ hpc[h] = "suspended"
    /\ waiters' = [waiters EXCEPT ![hclient[h]] = NoPoller]
    /\ hpc' = [hpc EXCEPT ![h] = "done"]
    /\ hresp' = [hresp EXCEPT ![h] = "204"]
    /\ UNCHANGED <<hclient, hcursor, hrate, hbefore, authVars, msgCounter, colorOf,
                   chan, closed, storeVars, readVars, waitVars, sendVars, counter, confVars, extVars, aret>>

\* Handle has returned; the goroutine and its locals are gone.
HandlerDone(h) ==
    /\ hpc[h] = "done"
    /\ hpc' = [hpc EXCEPT ![h] = "idle"]
    /\ hclient' = [hclient EXCEPT ![h] = EmptyClient]
    /\ hcursor' = [hcursor EXCEPT ![h] = EmptyID]
    /\ hresp' = [hresp EXCEPT ![h] = "none"]
    /\ hrate' = [hrate EXCEPT ![h] = "none"]
    /\ hbefore' = [hbefore EXCEPT ![h] = <<>>]
    /\ chan' = [chan EXCEPT ![h] = <<>>]
    /\ UNCHANGED <<authVars, msgCounter, colorOf, waiters, closed, storeVars, readVars,
                   waitVars, sendVars, counter, confVars, extVars, aret>>

\* NewServer: the buffer, the ChatService and the AuthService.  Publish
\* requests are served by the handlers PublishHandlers, poll requests by the
\* others; the store's own sweep is left to StoreSpec.
ReqInit ==
    /\ maxSize = BrokerSize
    /\ ttl = BrokerTTL
    /\ maxWaiters = MaxWaiters
    /\ InitFor(Senders)

ReqNext ==
    \/ ReqTick
    \/ ClientSweep
    \/ \E h \in PublishHandlers, key \in Keys, c \in ReqCallers : PublishAuth(h, key, c)
    \/ \E h \in PublishHandlers : PublishRate(h)
    \/ \E h \in PublishHandlers, user \in Texts, content \in Texts, color \in Colors :
           PublishSend(h, user, content, color)
    \/ \E h \in PollHandlers, key \in Keys, c \in ReqCallers : PollAuth(h, key, c)
    \/ \E h \in PollHandlers, cursor \in {EmptyID, UnknownID} : PollWait(h, cursor)
    \/ \E h \in PollHandlers : PollSignal(h)
    \/ \E h \in PollHandlers : PollTimeout(h)
    \/ \E h \in Handlers : HandlerDone(h)

ReqSpec == ReqInit /\ [][ReqNext]_vars

\* ------------------------------------------------------------- lock-level view
\* The same operations seen at the level of their locks: MessageBuffer.mu
\* ("store") and ChatService.mu ("registry"), both sync.RWMutex.  A goroutine
\* runs the instructions of its operation one by one.
Instr(do, on) == [do |-> do, on |-> on]

\* mu.Lock(): the writer announces itself, which keeps new readers out, then
\* waits until the readers inside have left.
WLock(l) == <<Instr("announce", l), Instr("acquire", l)>>

\* MessageBuffer.Add, lines 127-128: stamp ExpireAt and append.
Grow(msgs, id, t) == Append(msgs, [id |-> id, expireAt |-> t + ttl])

\* MessageBuffer.Add, lines 130-132: drop the oldest on overflow.
Trim(msgs) == IF Len(msgs) > maxSize THEN SubSeq(msgs, 2, Len(msgs)) ELSE msgs

\* SendMessage that appends to the slice without taking MessageBuffer.mu.
SendProgram_NoStoreLock ==
    <<Instr("append", "store"), Instr("trim", "store"),
      Instr("rlock", "registry"), Instr("runlock", "registry")>>

\* SendMessage: buffer.Add under Lock, then notifyWaiters under RLock.
SendProgram ==
    WLock("store")
    \o <<Instr("append", "store"), Instr("trim", "store"), Instr("unlock", "store"),
         Instr("rlock", "registry"), Instr("runlock", "registry")>>

\* GetMessages: buffer.GetAfter under RLock.
ReadProgram ==
    <<Instr("rlock", "store"), Instr("read", "store"), Instr("runlock", "store")>>

\* WaitForMessages that times out: first read, registration, select, the
\* deferred delete.
WaitProgram ==
    ReadProgram
    \o WLock("registry") \o <<Instr("unlock", "registry")>>
    \o <<Instr("select", "none")>>
    \o WLock("registry") \o <<Instr("unlock", "registry")>>

\* WaitForMessages that is signaled: as above, with the second read before
\* the deferred delete.
WaitSignalProgram ==
    ReadProgram
    \o WLock("registry") \o <<Instr("unlock", "registry")>>
    \o <<Instr("select", "none")>>
    \o ReadProgram
    \o WLock("registry") \o <<Instr("unlock", "registry")>>

\* GetStats calling buffer.Len() before it releases s.mu.
StatsProgram_Nested ==
    <<Instr("rlock", "registry")>> \o ReadProgram \o <<Instr("runlock", "registry")>>

\* GetStats: len(s.waiters) under RLock, released, then buffer.Len().
StatsProgram ==
    <<Instr("rlock", "registry"), Instr("runlock", "registry")>> \o ReadProgram

\* One iteration of cleanupLoop.
SweepProgram ==
    WLock("store") \o <<Instr("sweep", "store"), Instr("unlock", "store")>>

Program(kind) ==
    CASE kind = "send" -> SendProgram
      [] kind = "read" -> ReadProgram
      [] kind = "wait" -> WaitProgram
      [] kind = "waitsignal" -> WaitSignalProgram
      [] kind = "stats" -> StatsProgram

\* Goroutine p is about to run instruction do.
At(p, do) == lprog[p] # <<>> /\ Head(lprog[p]).do = do

Advance1(p) == lprog' = [lprog EXCEPT ![p] = Tail(@)]

\* An operation is called.
LockStart(p, kind) ==
    /\ lprog[p] = <<>>
    /\ kind = "send" => counter < MaxSends
    /\ lprog' = [lprog EXCEPT ![p] = Program(kind)]
    /\ UNCHANGED <<locks, lcommitted, wireVars, cliVars, storeVars, readVars, waitVars,
                   sendVars, regVars, counter, confVars, reqVars>>

\* The ticker of cleanupLoop fires.
SweepStart ==
    /\ lprog[Sweeper] = <<>>
    /\ lprog' = [lprog EXCEPT ![Sweeper] = SweepProgram]
    /\ UNCHANGED <<locks, lcommitted, wireVars, cliVars, storeVars, readVars, waitVars,
                   sendVars, regVars, counter, confVars, reqVars>>

\* Lock(), first half: no other writer holds or awaits the lock.
LockAnnounce(p) ==
    /\ At(p, "announce")
    /\ LET l == Head(lprog[p]).on
       IN  /\ locks[l].writer = NoProc
           /\ locks' = [locks EXCEPT ![l].writer = p]
    /\ Advance1(p)
    /\ UNCHANGED <<lcommitted, wireVars, cliVars, storeVars, readVars, waitVars,
                   sendVars, regVars, counter, confVars, reqVars>>

\* Lock(), second half: the readers have left.
LockAcquire(p) ==
    /\ At(p, "acquire")
    /\ LET l == Head(lprog[p]).on
       IN  /\ locks[l].readers = {}
           /\ locks' = [locks EXCEPT ![l].active = TRUE]
    /\ Advance1(p)
    /\ UNCHANGED <<lcommitted, wireVars, cliVars, storeVars, readVars, waitVars,
                   sendVars, regVars, counter, confVars, reqVars>>

\* Unlock()
LockRelease(p) ==
    /\ At(p, "unlock")
    /\ locks' = [locks EXCEPT ![Head(lprog[p]).on] = FreeLock]
    /\ Advance1(p)
    /\ UNCHANGED <<lcommitted, wireVars, cliVars, storeVars, readVars, waitVars,
                   sendVars, regVars, counter, confVars, reqVars>>

\* RLock(): no writer holds or awaits the lock.
LockRLock(p) ==
    /\ At(p, "rlock")
    /\ LET l == Head(lprog[p]).on
       IN  /\ locks[l].writer = NoProc
           /\ locks' = [locks EXCEPT ![l].readers = @ \cup {p}]
    /\ Advance1(p)
    /\ UNCHANGED <<lcommitted, wireVars, cliVars, storeVars, readVars, waitVars,
                   sendVars, regVars, counter, confVars, reqVars>>

\* RUnlock()
LockRUnlock(p) ==
    /\ At(p, "runlock")
    /\ locks' = [locks EXCEPT ![Head(lprog[p]).on].readers = @ \ {p}]
    /\ Advance1(p)
    /\ UNCHANGED <<lcommitted, wireVars, cliVars, storeVars, readVars, waitVars,
                   sendVars, regVars, counter, confVars, reqVars>>

\* Add, lines 127-128.
StoreAppend(p) ==
    /\ At(p, "append")
    /\ counter' = counter + 1
    /\ messages' = Grow(messages, counter + 1, now)
    /\ appended' = Append(appended, counter + 1)
    /\ Advance1(p)
    /\ UNCHANGED <<locks, lcommitted, now, expired, sweptAt, wireVars, cliVars, readVars,
                   waitVars, sendVars, regVars, confVars, reqVars>>

\* Add, lines 130-132: the Add is whole.
StoreTrim(p) ==
    /\ At(p, "trim")
    /\ messages' = Trim(messages)
    /\ lcommitted' = Trim(messages)
    /\ Advance1(p)
    /\ UNCHANGED <<locks, now, appended, expired, sweptAt, wireVars, cliVars, readVars,
                   waitVars, sendVars, regVars, counter, confVars, reqVars>>

\* cleanupLoop, lines 180-187: the sweep is whole.
StoreSweep(p) ==
    /\ At(p, "sweep")
    /\ messages' = Cleanup(messages, now)
    /\ lcommitted' = Cleanup(messages, now)
    /\ expired' = expired \cup (Range(IdsOf(messages)) \ Range(IdsOf(messages')))
    /\ Advance1(p)
    /\ UNCHANGED <<locks, now, appended, sweptAt, wireVars, cliVars, readVars,
                   waitVars, sendVars, regVars, counter, confVars, reqVars>>

\* GetAfter or Len looks at the slice.
StoreRead(p) ==
    /\ At(p, "read")
    /\ Advance1(p)
    /\ UNCHANGED <<locks, lcommitted, wireVars, cliVars, storeVars, readVars, waitVars,
                   sendVars, regVars, counter, confVars, reqVars>>

\* The select of WaitForMessages: a signal or the timer.
LockSelect(p) ==
    /\ At(p, "select")
    /\ Advance1(p)
    /\ UNCHANGED <<locks, lcommitted, wireVars, cliVars, storeVars, readVars, waitVars,
                   sendVars, regVars, counter, confVars, reqVars>>

\* The next instruction of goroutine p.
LockStep(p) ==
    \/ LockAnnounce(p)
    \/ LockAcquire(p)
    \/ LockRelease(p)
    \/ LockRLock(p)
    \/ LockRUnlock(p)
    \/ StoreAppend(p)
    \/ StoreTrim(p)
    \/ StoreSweep(p)
    \/ StoreRead(p)
    \/ LockSelect(p)

LockInit ==
    /\ maxSize \in 1..BrokerSize
    /\ ttl = BrokerTTL
    /\ maxWaiters = MaxWaiters
    /\ InitRest

LockNext ==
    \/ Tick
    \/ SweepStart
    \/ \E p \in LockOps, kind \in OpKinds : LockStart(p, kind)
    \/ \E p \in LockProcs : LockAnnounce(p)
    \/ \E p \in LockProcs : LockAcquire(p)
    \/ \E p \in LockProcs : LockRelease(p)
    \/ \E p \in LockProcs : LockRLock(p)
    \/ \E p \in LockProcs : LockRUnlock(p)
    \/ \E p \in LockProcs : StoreAppend(p)
    \/ \E p \in LockProcs : StoreTrim(p)
    \/ \E p \in LockProcs : StoreSweep(p)
    \/ \E p \in LockProcs : StoreRead(p)
    \/ \E p \in LockProcs : LockSelect(p)

\* The Go scheduler runs every goroutine that can run, and sync.RWMutex
\* does not starve a goroutine that waits for it.
LockFairness == \A p \in LockProcs : SF_vars(LockStep(p))

LockSpec == LockInit /\ [][LockNext]_vars /\ LockFairness

\* The same goroutines with the clock standing still and one capacity: the
\* order in which the locks are taken does not depend on either.
LockOrderInit ==
    /\ maxSize = BrokerSize
    /\ ttl = BrokerTTL
    /\ maxWaiters = MaxWaiters
    /\ InitRest

LockOrderNext ==
    \/ SweepStart
    \/ \E p \in LockOps, kind \in OpKinds : LockStart(p, kind)
    \/ \E p \in LockProcs : LockStep(p)

LockOrderSpec == LockOrderInit /\ [][LockOrderNext]_vars /\ LockFairness

\* ------------------------------------------------------------- wire format
\* The messages SendMessage can have built: non-empty username and content,
\* a generated id, a color of the palette.
WireMessages ==
    [username : Usernames, content : Contents, id : Ids, color : WireColors]

\* Message.ToClientFormat: the map literal {m.Username: m.Content,
\* "color": m.Color, "id": m.ID}; an entry written later replaces an earlier
\* one with the same key.
ToClientFormat(m) ==
    Put(Put(Put(NoMap, m.username, m.content), "color", m.color), "id", m.id)

\* knownPollKeys
KnownPollKeys == {"color", "id", "timestamp"}

\* The keys the loop of parsePollMessages, lines 91-98, can stop at.
DynamicKeys(raw) == DOMAIN raw \ KnownPollKeys

\* parsePollMessages, lines 76-98, for one element: the fixed fields, then
\* the key the range stopped at ("": it found none).
ParseEntry(raw, key) ==
    [username |-> IF key \in DOMAIN raw THEN key ELSE "",
     content |-> IF key \in DOMAIN raw THEN raw[key] ELSE "",
     id |-> IF "id" \in DOMAIN raw THEN raw["id"] ELSE EmptyID,
     color |-> IF "color" \in DOMAIN raw THEN raw["color"] ELSE ""]

\* parsePollMessages, lines 100-104: a malformed entry is skipped.
Malformed(pm) == pm.username = "" \/ pm.content = "" \/ pm.id = EmptyID

\* PollController.Handle, lines 253-260: the message goes on the wire.
WireEncode(m) ==
    /\ wireIn = NoMsg
    /\ wireIn' = m
    /\ wire' = ToClientFormat(m)
    /\ UNCHANGED <<parsedOut, lockVars, cliVars, storeVars, readVars, waitVars,
                   sendVars, regVars, counter, confVars, reqVars>>

\* NetworkClient.poll, line 343: parsePollMessages on the one-element array.
WireParse(key) ==
    /\ wire # NoMap
    /\ IF DynamicKeys(wire) = {} THEN key = "" ELSE key \in DynamicKeys(wire)
    /\ parsedOut' = IF Malformed(ParseEntry(wire, key)) THEN <<>>
                    ELSE <<ParseEntry(wire, key)>>
    /\ wire' = NoMap
    /\ UNCHANGED <<wireIn, lockVars, cliVars, storeVars, readVars, waitVars,
                   sendVars, regVars, counter, confVars, reqVars>>

WireInit ==
    /\ maxSize = BrokerSize
    /\ ttl = BrokerTTL
    /\ maxWaiters = MaxWaiters
    /\ InitRest

WireNext ==
    \/ \E m \in WireMessages : WireEncode(m)
    \/ \E key \in Usernames \cup {""} : WireParse(key)

WireSpec == WireInit /\ [][WireNext]_vars

\* ------------------------------------------------------------- NetworkClient
\* The client of cli-client against the server's store.  The server side of
\* a request is the store operation the handler ends in; firstConnect and
\* wasConnected only choose status texts and are left out.

\* pollLoop, line 276, without the cap.
BackoffNext_NoCap(b) == b * 2

\* pollLoop, line 276: backoff = min(backoff*2, maxBackoff).
BackoffNext(b) == Min(b * 2, MaxBackoff)

\* The stop channel has been closed.
StopChClosed == ccloses > 0

\* poll, lines 338-352, on a 200 response with the messages msgs: lastID is
\* moved to the last of them and pollLoop goes on to handle them.
PollDeliver(msgs) ==
    /\ clastID' = msgs[Len(msgs)].id
    /\ cqueue' = IdsOf(msgs)
    /\ cbackoff' = 1
    /\ cpc' = "handle"

\* pollLoop, lines 255-259: the stopped flag is read, then poll() sends the
\* request with the cursor lastID.
LoopTop ==
    /\ cpc = "top"
    /\ cpc' = IF cstopped = 1 THEN "returned" ELSE "polling"
    /\ UNCHANGED <<cbackoff, clastID, csentIDs, cqueue, cdelivered, cmine, cstopped,
                   ccloses, cstoppc, csendpc, csendid, lockVars, wireVars, storeVars,
                   readVars, waitVars, sendVars, regVars, counter, confVars, reqVars>>

\* The server's WaitForMessages, first read: messages after the cursor are
\* answered at once with 200, else the request waits.
PollFirstRead ==
    /\ cpc = "polling"
    /\ LET msgs == GetAfter(messages, clastID, ReadLimit)
       IN  IF Len(msgs) > 0
           THEN PollDeliver(msgs)
           ELSE /\ cpc' = "waiting"
                /\ UNCHANGED <<cbackoff, clastID, cqueue>>
    /\ UNCHANGED <<csentIDs, cdelivered, cmine, cstopped, ccloses, cstoppc, csendpc,
                   csendid, lockVars, wireVars, storeVars, readVars, waitVars,
                   sendVars, regVars, counter, confVars, reqVars>>

\* The server's WaitForMessages is signaled and reads again: 200 with the
\* messages after the cursor, 204 when there are none.
PollReread ==
    /\ cpc = "waiting"
    /\ LET msgs == GetAfter(messages, clastID, ReadLimit)
       IN  IF Len(msgs) > 0
           THEN PollDeliver(msgs)
           ELSE /\ cpc' = "pause"
                /\ cbackoff' = 1
                /\ UNCHANGED <<clastID, cqueue>>
    /\ UNCHANGED <<csentIDs, cdelivered, cmine, cstopped, ccloses, cstoppc, csendpc,
                   csendid, lockVars, wireVars, storeVars, readVars, waitVars,
                   sendVars, regVars, counter, confVars, reqVars>>

\* The server's WaitForMessages times out: 204, poll returns (nil, nil).
PollTimeout204 ==
    /\ cpc = "waiting"
    /\ cpc' = "pause"
    /\ cbackoff' = 1
    /\ UNCHANGED <<clastID, csentIDs, cqueue, cdelivered, cmine, cstopped, ccloses,
                   cstoppc, csendpc, csendid, lockVars, wireVars, storeVars, readVars,
                   waitVars, sendVars, regVars, counter, confVars, reqVars>>

\* poll returns an error: the server is not reachable, or answers 401 or 500.
PollFail ==
    /\ cpc \in {"polling", "waiting"}
    /\ cpc' = "backoff"
    /\ UNCHANGED <<cbackoff, clastID, csentIDs, cqueue, cdelivered, cmine, cstopped,
                   ccloses, cstoppc, csendpc, csendid, lockVars, wireVars, storeVars,
                   readVars, waitVars, sendVars, regVars, counter, confVars, reqVars>>

\* pollLoop, lines 271-277, case <-time.After(backoff).
BackoffTimer ==
    /\ cpc = "backoff"
    /\ cbackoff' = BackoffNext(cbackoff)
    /\ cpc' = "top"
    /\ UNCHANGED <<clastID, csentIDs, cqueue, cdelivered, cmine, cstopped, ccloses,
                   cstoppc, csendpc, csendid, lockVars, wireVars, storeVars, readVars,
                   waitVars, sendVars, regVars, counter, confVars, reqVars>>

\* pollLoop, lines 272-273 and 295-296, case <-nc.stopCh.
SelectStop ==
    /\ cpc \in {"backoff", "pause"}
    /\ StopChClosed
    /\ cpc' = "returned"
    /\ UNCHANGED <<cbackoff, clastID, csentIDs, cqueue, cdelivered, cmine, cstopped,
                   ccloses, cstoppc, csendpc, csendid, lockVars, wireVars, storeVars,
                   readVars, waitVars, sendVars, regVars, counter, confVars, reqVars>>

\* pollLoop, line 297: the pause after a 204.
PauseTimer ==
    /\ cpc = "pause"
    /\ cpc' = "top"
    /\ UNCHANGED <<cbackoff, clastID, csentIDs, cqueue, cdelivered, cmine, cstopped,
                   ccloses, cstoppc, csendpc, csendid, lockVars, wireVars, storeVars,
                   readVars, waitVars, sendVars, regVars, counter, confVars, reqVars>>

\* handleIncoming for the next message of the poll: an id found in sentIDs
\* is deleted from it and the message skipped, any other goes to onMessage.
HandleIncoming ==
    /\ cpc = "handle"
    /\ LET id == Head(cqueue)
       IN  IF id \in csentIDs
           THEN /\ csentIDs' = csentIDs \ {id}
                /\ UNCHANGED cdelivered
           ELSE /\ cdelivered' = Append(cdelivered, id)
                /\ UNCHANGED csentIDs
    /\ cqueue' = Tail(cqueue)
    /\ cpc' = IF Len(cqueue) = 1 THEN "top" ELSE "handle"
    /\ UNCHANGED <<cbackoff, clastID, cmine, cstopped, ccloses, cstoppc, csendpc,
                   csendid, lockVars, wireVars, storeVars, readVars, waitVars,
                   sendVars, regVars, counter, confVars, reqVars>>

\* Stop that closes the channel whatever the flag was.
StopCAS_NoCompare(k) ==
    /\ cstoppc[k] = "idle"
    /\ cstopped' = 1
    /\ cstoppc' = [cstoppc EXCEPT ![k] = "closing"]
    /\ UNCHANGED <<cpc, cbackoff, clastID, csentIDs, cqueue, cdelivered, cmine, ccloses,
                   csendpc, csendid, lockVars, wireVars, storeVars, readVars, waitVars,
                   sendVars, regVars, counter, confVars, reqVars>>

\* Stop, line 182: atomic.CompareAndSwapInt32(&nc.stopped, 0, 1).
StopCAS(k) ==
    /\ cstoppc[k] = "idle"
    /\ cstopped' = 1
    /\ cstoppc' = [cstoppc EXCEPT ![k] = IF cstopped = 0 THEN "closing" ELSE "done"]
    /\ UNCHANGED <<cpc, cbackoff, clastID, csentIDs, cqueue, cdelivered, cmine, ccloses,
                   csendpc, csendid, lockVars, wireVars, storeVars, readVars, waitVars,
                   sendVars, regVars, counter, confVars, reqVars>>

\* Stop, line 183: close(nc.stopCh).
StopClose(k) ==
    /\ cstoppc[k] = "closing"
    /\ ccloses' = ccloses + 1
    /\ cstoppc' = [cstoppc EXCEPT ![k] = "done"]
    /\ UNCHANGED <<cpc, cbackoff, clastID, csentIDs, cqueue, cdelivered, cmine, cstopped,
                   csendpc, csendid, lockVars, wireVars, storeVars, readVars, waitVars,
                   sendVars, regVars, counter, confVars, reqVars>>

\* Stop has returned; the caller may call it again.
StopReturn(k) ==
    /\ cstoppc[k] = "done"
    /\ cstoppc' = [cstoppc EXCEPT ![k] = "idle"]
    /\ UNCHANGED <<cpc, cbackoff, clastID, csentIDs, cqueue, cdelivered, cmine, cstopped,
                   ccloses, csendpc, csendid, lockVars, wireVars, storeVars, readVars,
                   waitVars, sendVars, regVars, counter, confVars, reqVars>>

\* SendMessage, lines 174-176: the stopped flag is read.
SendLoad(k) ==
    /\ csendpc[k] = "idle"
    /\ counter < MaxSends
    /\ csendpc' = [csendpc EXCEPT ![k] = IF cstopped = 1 THEN "idle" ELSE "spawn"]
    /\ UNCHANGED <<cpc, cbackoff, clastID, csentIDs, cqueue, cdelivered, cmine, cstopped,
                   ccloses, cstoppc, csendid, lockVars, wireVars, storeVars, readVars,
                   waitVars, sendVars, regVars, counter, confVars, reqVars>>

\* SendMessage, line 177: go nc.sendAsync(...), which posts the request.
SendSpawn(k) ==
    /\ csendpc[k] = "spawn"
    /\ csendpc' = [csendpc EXCEPT ![k] = "posting"]
    /\ UNCHANGED <<cpc, cbackoff, clastID, csentIDs, cqueue, cdelivered, cmine, cstopped,
                   ccloses, cstoppc, csendid, lockVars, wireVars, storeVars, readVars,
                   waitVars, sendVars, regVars, counter, confVars, reqVars>>

\* The server's SendMessage for the client's request: the message is stored
\* and its id goes into the response.
ServerPost(k) ==
    /\ csendpc[k] = "posting"
    /\ counter < MaxSends
    /\ counter' = counter + 1
    /\ messages' = Add(messages, counter + 1, now)
    /\ appended' = Append(appended, counter + 1)
    /\ cmine' = cmine \cup {counter + 1}
    /\ csendid' = [csendid EXCEPT ![k] = counter + 1]
    /\ csendpc' = [csendpc EXCEPT ![k] = "responded"]
    /\ UNCHANGED <<cpc, cbackoff, clastID, csentIDs, cqueue, cdelivered, cstopped,
                   ccloses, cstoppc, lockVars, wireVars, now, expired, sweptAt, readVars,
                   waitVars, sendVars, regVars, confVars, reqVars>>

\* sendAsync, lines 214-218 and 233-237: the post fails or is refused.
SendFail(k) ==
    /\ csendpc[k] = "posting"
    /\ csendpc' = [csendpc EXCEPT ![k] = "idle"]
    /\ UNCHANGED <<cpc, cbackoff, clastID, csentIDs, cqueue, cdelivered, cmine, cstopped,
                   ccloses, cstoppc, csendid, lockVars, wireVars, storeVars, readVars,
                   waitVars, sendVars, regVars, counter, confVars, reqVars>>

\* sendAsync, lines 225-232: the id of the response is put into sentIDs.
SendRecord(k) ==
    /\ csendpc[k] = "responded"
    /\ csentIDs' = csentIDs \cup {csendid[k]}
    /\ csendid' = [csendid EXCEPT ![k] = EmptyID]
    /\ csendpc' = [csendpc EXCEPT ![k] = "idle"]
    /\ UNCHANGED <<cpc, cbackoff, clastID, cqueue, cdelivered, cmine, cstopped,
                   ccloses, cstoppc, lockVars, wireVars, storeVars, readVars,
                   waitVars, sendVars, regVars, counter, confVars, reqVars>>

\* Another caller's message is stored by the server.
OtherPublish ==
    /\ counter < MaxSends
    /\ counter' = counter + 1
    /\ messages' = Add(messages, counter + 1, now)
    /\ appended' = Append(appended, counter + 1)
    /\ UNCHANGED <<now, expired, sweptAt, lockVars, wireVars, cliVars, readVars,
                   waitVars, sendVars, regVars, confVars, reqVars>>

\* NewServer and NewNetworkClient; Start has launched pollLoop.
ClientInit ==
    /\ maxSize = BrokerSize
    /\ ttl = BrokerTTL
    /\ maxWaiters = MaxWaiters
    /\ InitRest

\* The steps of the goroutine of pollLoop.
LoopStep ==
    \/ LoopTop
    \/ PollFirstRead
    \/ PollReread
    \/ PollTimeout204
    \/ PollFail
    \/ BackoffTimer
    \/ SelectStop
    \/ PauseTimer
    \/ HandleIncoming

ClientNext ==
    \/ Tick
    \/ CleanupTick
    \/ OtherPublish
    \/ LoopStep
    \/ \E k \in StopCalls : StopCAS(k)
    \/ \E k \in StopCalls : StopClose(k)
    \/ \E k \in StopCalls : StopReturn(k)
    \/ \E k \in SendCalls : SendLoad(k)
    \/ \E k \in SendCalls : SendSpawn(k)
    \/ \E k \in SendCalls : ServerPost(k)
    \/ \E k \in SendCalls : SendFail(k)
    \/ \E k \in SendCalls : SendRecord(k)

\* The goroutine of pollLoop keeps running (every request ends: the server
\* answers within its poll timeout, the http client gives up after its own),
\* and a Stop that won the compare-and-swap goes on to close the channel.
ClientFairness ==
    /\ WF_vars(LoopStep)
    /\ \A k \in StopCalls : WF_vars(StopClose(k))

ClientSpec == ClientInit /\ [][ClientNext]_vars /\ ClientFairness

\* The client while the server stays reachable and nobody calls Stop: every
\* poll is answered 200 or 204.
ReachableStep ==
    \/ LoopTop
    \/ PollFirstRead
    \/ PollReread
    \/ PollTimeout204
    \/ PauseTimer
    \/ HandleIncoming

ReachableNext ==
    \/ Tick
    \/ CleanupTick
    \/ OtherPublish
    \/ ReachableStep
    \/ \E k \in SendCalls : SendLoad(k)
    \/ \E k \in SendCalls : SendSpawn(k)
    \/ \E k \in SendCalls : ServerPost(k)
    \/ \E k \in SendCalls : SendRecord(k)

ReachableSpec == ClientInit /\ [][ReachableNext]_vars /\ WF_vars(ReachableStep)

\* The poll loop by itself, with the publishes of other callers that give
\* its polls something to return, and Stop.
LoopSpec ==
    /\ ClientInit
    /\ [][\/ OtherPublish
          \/ LoopStep
          \/ \E k \in StopCalls : StopCAS(k)
          \/ \E k \in StopCalls : StopClose(k)
          \/ \E k \in StopCalls : StopReturn(k)]_vars
    /\ ClientFairness

\* ============================================================= claims
\* Position of id in the history of Add calls (0: never added).
PosInHistory(id) ==
    IF id \in Range(appended)
    THEN CHOOSE i \in 1..Len(appended) : appended[i] = id
    ELSE 0

StoredIds == Range(IdsOf(messages))

\* The ids added after id k, in the order of their Add, that are still stored.
StoredAfter(k) ==
    SelectSeq(SubSeq(appended, PosInHistory(k) + 1, Len(appended)),
              LAMBDA id : id \in StoredIds)

\* The step is a direct MessageBuffer.GetAfter call.
IsStoreRead == \E a \in Ids \cup {EmptyID, UnknownID}, l \in Limits : StoreGetAfter(a, l)

\* C1: in every reachable state, under any interleaving of Add, the reads and
\* the expiry sweep, the store holds between 0 and maxSize messages.
C1_StoreSizeBounded == Len(messages) >= 0 /\ Len(messages) <= maxSize

\* C1 witness: an Add has overflowed and the store is exactly full.
C1_Witness == Len(appended) > maxSize /\ Len(messages) = maxSize

\* C2: after n > maxSize Adds with no message removed by the sweep, the store
\* holds exactly the maxSize most recently added messages, oldest first; and
\* every Add on a full store removes exactly one entry, the oldest.
C2_KeepsMostRecent ==
    /\ [](expired = {} => IdsOf(messages) = LastN(appended, maxSize))
    /\ [][(appended' # appended /\ Len(messages) = maxSize)
            => IdsOf(messages') = Tail(IdsOf(messages)) \o <<appended'[Len(appended')]>>]_vars

\* C2 witness: two more Adds than the capacity, nothing expired.
C2_Witness ==
    /\ expired = {}
    /\ Len(appended) >= maxSize + 2
    /\ IdsOf(messages) = LastN(appended, maxSize)

\* C3: GetAfter with a non-empty cursor that is in the store returns exactly
\* the messages stored after it, in insertion order, whatever the limit.
C3_CursorReadUnbounded ==
    [][(IsStoreRead /\ rAfter' # EmptyID /\ rAfter' \in StoredIds)
         => /\ IdsOf(rResult') = StoredAfter(rAfter')
            /\ \A i \in 1..Len(rResult') : rResult'[i] \in Range(messages)]_vars

\* C3 witness: a cursor read returned more messages than its limit.
C3_Witness ==
    /\ rAfter # EmptyID
    /\ rAfter \in StoredIds
    /\ rLimit >= 1
    /\ Len(rResult) > rLimit
    /\ IdsOf(rResult) = StoredAfter(rAfter)

\* C4: GetAfter with the empty cursor and limit L returns the min(L, n) most
\* recent of the n stored messages, oldest first, never more than L.
C4_EmptyCursorRead ==
    [][(IsStoreRead /\ rAfter' = EmptyID)
         => /\ rResult' = LastN(messages, rLimit')
            /\ Len(rResult') = Min(rLimit', Len(messages))
            /\ Len(rResult') <= rLimit']_vars

\* C4 witness: the store holds more than the limit and the read was cut to it.
C4_Witness ==
    /\ rAfter = EmptyID
    /\ rLimit >= 1
    /\ Len(messages) > rLimit
    /\ rResult = LastN(messages, rLimit)

\* C5: GetAfter with a non-empty cursor that matches no stored message (never
\* existed, evicted, swept) returns the empty sequence; so does a cursor that
\* names the newest stored message.
C5_UnknownCursorEmpty ==
    [][(IsStoreRead /\ rAfter' # EmptyID
           /\ (rAfter' \notin StoredIds
                 \/ rAfter' = messages[Len(messages)].id))
         => rResult' = <<>>]_vars

\* C5 witness: the cursor named a message the sweep removed, the store held
\* other messages, and the read was empty.
C5_Witness ==
    /\ rAfter \in expired
    /\ Len(messages) > 0
    /\ rResult = <<>>

\* The step is a read of the store by call p: GetMessages, the first read of
\* WaitForMessages, or its second read after a signal.
IsFirstRead(p) == wpc[p] = "idle" /\ wpc'[p] \in {"returned", "register"}

IsReread(p) == wpc[p] = "reread" /\ wpc'[p] = "defer"

IsRead(p) == IsFirstRead(p) \/ IsReread(p)

\* Message id was added after the message k, by the history of Add calls.
AddedAfter(id, k) ==
    /\ k \in Range(appended)
    /\ id \in Range(appended)
    /\ PosInHistory(id) > PosInHistory(k)

\* C6 as claimed: every stored message added after the message the cursor
\* identified is in the result of the read.
C6_AllNewerDelivered ==
    [][\A p \in Pollers : IsRead(p) =>
         \A id \in StoredIds :
            AddedAfter(id, wafter'[p]) => id \in Range(wresult'[p])]_vars

\* C6, amended: provided the cursor's message is itself still in the store at
\* the read, every stored message added after it is in the result.
C6_NewerDeliveredIfCursorStored ==
    [][\A p \in Pollers : (IsRead(p) /\ wafter'[p] \in StoredIds) =>
         \A id \in StoredIds :
            AddedAfter(id, wafter'[p]) => id \in Range(wresult'[p])]_vars

\* C6 witness: a call returned a message read after a cursor still stored.
C6_Witness ==
    \E p \in Pollers :
        /\ wpc[p] = "returned"
        /\ wafter[p] \in StoredIds
        /\ Len(wresult[p]) >= 1
        /\ \A i \in 1..Len(wresult[p]) : AddedAfter(wresult[p][i], wafter[p])

\* C7 as claimed: the second read of a call woken by a Send, with a cursor
\* still in the store, includes that Send's message.
C7_RereadHasNewMessage ==
    [][\A p \in Pollers : (IsReread(p) /\ wafter[p] \in StoredIds) =>
         wokenBy[p] \in Range(wresult'[p])]_vars

\* C7, amended: a signal is only ever sent by a Send whose message has been
\* added; and the second read of a call woken by a Send, with a cursor that
\* is still in the store and was added before that Send's message, includes
\* that message.
C7_AppendBeforeSignal ==
    /\ [](\A p \in Pollers :
            /\ Len(chan[p]) > 0 => chan[p][1] \in Range(appended)
            /\ wpc[p] = "reread" => wokenBy[p] \in Range(appended))
    /\ [][\A p \in Pollers :
            (IsReread(p) /\ wafter[p] \in StoredIds /\ AddedAfter(wokenBy[p], wafter[p]))
               => wokenBy[p] \in Range(wresult'[p])]_vars

\* C7 witness: a woken call has re-read with a stored cursor and got the
\* message of the Send that woke it.
C7_Witness ==
    \E p \in Pollers :
        /\ wpc[p] = "defer"
        /\ wvia[p] = "signal"
        /\ wafter[p] \in StoredIds
        /\ wokenBy[p] \in Range(wresult[p])

\* C8: when a notification pass has visited the registry, every handle in it
\* whose call is still suspended in the select holds a signal.
C8_RegisteredWaitersWoken ==
    \A s \in Senders : (spc[s] = "ranging" /\ stodo[s] = {}) =>
        \A c \in ClientIDs :
            (waiters[c] # NoPoller /\ wpc[waiters[c]] = "select")
               => Len(chan[waiters[c]]) > 0

\* C8 witness: a pass has ended with two suspended calls registered, both signalled.
C8_Witness ==
    \E s \in Senders :
        /\ spc[s] = "ranging"
        /\ stodo[s] = {}
        /\ NumWaiters = 2
        /\ \A c \in ClientIDs :
              waiters[c] # NoPoller =>
                 (wpc[waiters[c]] = "select" /\ Len(chan[waiters[c]]) > 0)

\* C9: the number of registered handles never exceeds maxWaiters.
C9_WaitersBounded == NumWaiters <= maxWaiters

\* C9 witness: the registry is full and a call has been turned away.
C9_Witness ==
    /\ NumWaiters = maxWaiters
    /\ \E p \in Pollers : wpc[p] = "returned" /\ wvia[p] = "busy"

\* C10: a call that found no data and finds the registry full returns Busy
\* at once, without suspending, and leaves registry and handles as they were.
C10_BusyLeavesRegistry ==
    [][\A p \in Pollers :
         (wpc[p] = "register" /\ wpc'[p] # "register" /\ RegistryFull)
            => /\ wpc'[p] = "returned"
               /\ wvia'[p] = "busy"
               /\ wresult'[p] = <<>>
               /\ waiters' = waiters
               /\ chan' = chan]_vars

\* C10 witness: a call returned Busy while another call of the same caller
\* identifier stays registered.
C10_Witness ==
    \E p \in Pollers :
        /\ wpc[p] = "returned"
        /\ wvia[p] = "busy"
        /\ waiters[wclient[p]] \notin {NoPoller, p}

\* The call p is past its registration and has not yet run its deferred delete.
Active(p) == wpc[p] \in {"select", "reread", "defer"}

\* The step is the deferred delete of call p.
IsDeregister(p) == wpc[p] = "defer" /\ wpc'[p] = "close"

\* C11: once a call has run its deferred delete (it returns by signal or by
\* timeout), no registry entry holds the handle that call created; and the
\* delete of a call whose handle was in the registry frees that slot: right
\* after it the registry is not full, so the next call registers.
C11_ExitFreesSlot ==
    /\ [](\A p \in Pollers : wpc[p] \in {"close", "returned", "idle"} =>
            \A c \in ClientIDs : waiters[c] # p)
    /\ [][\A p \in Pollers :
            (IsDeregister(p) /\ waiters[wclient[p]] = p)
               => /\ NumWaiters' = NumWaiters - 1
                  /\ NumWaiters' < maxWaiters]_vars

\* C11 witness: with a registry of one slot, a call has returned after a
\* timeout or a signal and another call is registered in the slot it held.
C11_Witness ==
    \E p \in Pollers, q \in Pollers :
        /\ maxWaiters = 1
        /\ wpc[p] = "returned"
        /\ wvia[p] \in {"signal", "timeout"}
        /\ wpc[q] = "select"
        /\ waiters[wclient[q]] = q

\* C12: no two calls with the same caller identifier are both past their
\* registration and before their deferred delete; and the deferred delete of
\* a call removes no entry but the one that call stored.
C12_OneActivePerCaller ==
    /\ [](\A p \in Pollers, q \in Pollers :
            (p # q /\ Active(p) /\ Active(q)) => wclient[p] # wclient[q])
    /\ [][\A p \in Pollers :
            IsDeregister(p) => waiters[wclient[p]] \in {p, NoPoller}]_vars

\* C13: a suspended call leaves the select only by taking a signal from its
\* channel or by its timer firing; the timer case returns the empty sequence
\* and no error, and its result stays empty until the call has returned.
C13_TimeoutReturnsEmpty ==
    /\ [](\A p \in Pollers :
            (wpc[p] \in {"defer", "close", "returned"} /\ wvia[p] = "timeout")
               => wresult[p] = <<>>)
    /\ [][\A p \in Pollers :
            (wpc[p] = "select" /\ wpc'[p] # "select")
               => \/ /\ Len(chan[p]) > 0
                     /\ chan'[p] = <<>>
                     /\ wpc'[p] = "reread"
                  \/ /\ wpc'[p] = "defer"
                     /\ wvia'[p] = "timeout"
                     /\ wresult'[p] = <<>>]_vars

\* C13 witness: a call has returned by timeout, unsignalled and empty-handed,
\* while the store holds a message its cursor selects.
C13_Witness ==
    \E p \in Pollers :
        /\ wpc[p] = "returned"
        /\ wvia[p] = "timeout"
        /\ wresult[p] = <<>>
        /\ chan[p] = <<>>
        /\ Len(GetAfter(messages, wafter[p], ReadLimit)) > 0

\* The call p has found no data and has not yet returned.
Pending(p) == wpc[p] \in {"register", "select", "reread", "defer", "close"}

\* C14: every call of WaitForMessages returns, provided its timer fires:
\* whatever the other calls, the Sends and the sweep do, a call that did not
\* return at its first read is eventually at its return.
C14_WaitReturns == \A p \in Pollers : Pending(p) ~> (wpc[p] = "returned")

\* C14 witness: a call has returned by timeout while a Send was inside its
\* notification pass and another call was still suspended.
C14_Witness ==
    \E p \in Pollers, q \in Pollers, s \in Senders :
        /\ wpc[p] = "returned"
        /\ wvia[p] = "timeout"
        /\ wpc[q] = "select"
        /\ spc[s] = "ranging"

\* C15: a SendMessage call, once it has its id, always comes to its return,
\* also when no waiter ever takes another step; and an iteration of the
\* notification pass leaves a channel that already holds a signal as it is.
C15_SendCompletes ==
    /\ \A s \in Senders : (spc[s] # "idle") ~> (spc[s] = "idle")
    /\ [][\A s \in Senders, p \in Pollers :
            (spc[s] = "ranging" /\ stodo'[s] # stodo[s] /\ Len(chan[p]) > 0)
               => chan'[p] = chan[p]]_vars

\* C15 witness: a notification pass has visited every entry while a
\* suspended registered call still holds the signal of an earlier Send.
C15_Witness ==
    \E s \in Senders, c \in ClientIDs :
        /\ spc[s] = "ranging"
        /\ stodo[s] = {}
        /\ waiters[c] # NoPoller
        /\ wpc[waiters[c]] = "select"
        /\ Len(chan[waiters[c]]) > 0
        /\ chan[waiters[c]][1] # smsg[s]

\* The step is the start of a WaitForMessages call by p.
IsWaitStart(p) == wpc[p] = "idle" /\ wpc'[p] # "idle" /\ wvia'[p] # "readnow"

\* C16: a WaitForMessages call whose first read is non-empty returns that
\* result in the same step, whether or not the registry is full, and leaves
\* the registry and every channel as they were.
C16_ImmediateReturn ==
    [][\A p \in Pollers :
         (IsWaitStart(p) /\ Len(GetAfter(messages, wafter'[p], ReadLimit)) > 0)
            => /\ wpc'[p] = "returned"
               /\ wvia'[p] = "immediate"
               /\ wresult'[p] = IdsOf(GetAfter(messages, wafter'[p], ReadLimit))
               /\ waiters' = waiters
               /\ chan' = chan]_vars

\* C16 witness: a call has returned data at once while the registry is full.
C16_Witness ==
    \E p \in Pollers :
        /\ wpc[p] = "returned"
        /\ wvia[p] = "immediate"
        /\ Len(wresult[p]) > 0
        /\ NumWaiters = maxWaiters

\* C17: the messages of every read result are in the order of their Add;
\* so any two results, whoever holds them and whenever they were read, have
\* their common messages in the same relative order.
C17_OneTotalOrder ==
    /\ \A p \in Pollers : \A i \in 1..Len(wresult[p]), j \in 1..Len(wresult[p]) :
          i < j => /\ PosInHistory(wresult[p][i]) > 0
                   /\ PosInHistory(wresult[p][i]) < PosInHistory(wresult[p][j])
    /\ \A p \in Pollers, q \in Pollers :
          \A i \in 1..Len(wresult[p]), j \in 1..Len(wresult[p]),
             k \in 1..Len(wresult[q]), l \in 1..Len(wresult[q]) :
             (i < j /\ wresult[p][i] = wresult[q][k] /\ wresult[p][j] = wresult[q][l])
                => k < l

\* C17 witness: two callers hold results, read at different times, that
\* have two messages in common.
C17_Witness ==
    \E p \in Pollers, q \in Pollers :
        /\ p # q
        /\ wvia[p] = "readnow"
        /\ wvia[q] = "signal"
        /\ Len(wresult[p]) >= 2
        /\ wresult[q] = wresult[p]

\* C18: the identifiers of the stored messages are pairwise different, and
\* a message stored earlier has the smaller identifier counter, also when
\* SendMessage calls overlap.
C18_IdOrderIsInsertionOrder ==
    \A i \in 1..Len(messages), j \in 1..Len(messages) :
        i < j => messages[i].id < messages[j].id

\* The expiry time of the stored message id.
ExpireAtOf(id) == (CHOOSE m \in Range(messages) : m.id = id).expireAt

\* C19 as claimed: every message a read returns has an expiry time later
\* than the time of the read.
C19_NoExpiredReturned ==
    [][\A p \in Pollers : IsRead(p) =>
         \A id \in Range(wresult'[p]) : ExpireAtOf(id) > now]_vars

\* C19, amended: every message a read returns has an expiry time later than
\* the time the sweep last ran at (any message, when it has not run yet).
C19_NoneExpiredAtLastSweep ==
    [][\A p \in Pollers : IsRead(p) =>
         \A id \in Range(wresult'[p]) : ExpireAtOf(id) > sweptAt]_vars

\* C19 witness: after a sweep, a call has been given a stored message whose
\* expiry time has passed since.
C19_Witness ==
    \E p \in Pollers :
        /\ wpc[p] = "returned"
        /\ sweptAt >= 0
        /\ \E id \in Range(wresult[p]) :
              /\ id \in StoredIds
              /\ ExpireAtOf(id) <= now
              /\ ExpireAtOf(id) > sweptAt

\* C20: one run of the sweep leaves exactly the messages whose expiry time
\* is after the current time, in the order they had; it removes every other
\* message and none of those.
C20_SweepRemovesExpired ==
    [][SweepTick =>
         /\ messages' = SelectSeq(messages, LAMBDA m : m.expireAt > now)
         /\ \A m \in Range(messages) :
               m \in Range(messages') <=> ~(m.expireAt <= now)]_vars

\* C20 witness: a sweep has just removed a message and kept a later one.
C20_Witness ==
    /\ sweptAt = now
    /\ expired # {}
    /\ Len(messages) >= 1
    /\ \E i \in 1..Len(appended) :
          /\ appended[i] \in expired
          /\ \E j \in (i + 1)..Len(appended) : appended[j] \in StoredIds

\* C21: a stored message whose expiry time has passed is eventually out of
\* the store, read or not; straight after a sweep the store holds no message
\* that had expired by then; and no read returns a message the sweep removed.
C21_ExpiredEventuallyGone ==
    /\ \A id \in Ids :
          (id \in StoredIds /\ ExpireAtOf(id) <= now) ~> (id \notin StoredIds)
    /\ [](sweptAt = now => \A m \in Range(messages) : m.expireAt > now)
    /\ [](expired \cap StoredIds = {})
    /\ [][IsStoreRead => Range(IdsOf(rResult')) \cap expired = {}]_vars

\* C21 witness: the sweep has removed a message, and the last read returned
\* the messages stored after it and not the removed one.
C21_Witness ==
    /\ expired # {}
    /\ sweptAt >= 0
    /\ rAfter = EmptyID
    /\ Len(rResult) >= 1
    /\ IdsOf(rResult) = IdsOf(messages)
    /\ \E id \in expired : PosInHistory(id) < PosInHistory(rResult[1].id)

\* --------------------------------------------------------------- C22 .. C30
\* The named tags of the palette.
NamedTags == ValidColors \ {""}

\* C22: a publish whose username or content is empty is answered with the
\* error of SendMessage and changes nothing: the store, the registry of
\* waiters, the signal channels and the message counters stay as they were.
C22_InvalidSendChangesNothing ==
    [][\A h \in PublishHandlers, user \in Texts, content \in Texts, color \in Colors :
          (PublishSend(h, user, content, color) /\ (user = "" \/ content = "")) =>
              /\ hresp'[h] = "500"
              /\ UNCHANGED <<messages, appended, expired, waiters, closed, chan,
                             msgCounter, counter, colorOf>>]_vars

\* An invalid publish was rejected while a poller was registered and unsignaled.
C22_Witness ==
    /\ \E h \in PublishHandlers : hresp[h] = "500"
    /\ \E c \in ClientIDs : waiters[c] # NoPoller /\ Len(chan[waiters[c]]) = 0

C24_RejectedAccessChangesNothing ==
    [][\A key \in Keys, c \in CallerIDs :
          (AuthValidate(key, c) /\ (key # AccessKey \/ c = EmptyClient)) =>
              /\ aret'.ret = FALSE
              /\ UNCHANGED <<clients, rateLimiters>>]_vars

\* A call was refused while a client record existed.
C24_Witness ==
    aret = [call |-> "ValidateAccess", ret |-> FALSE] /\ DOMAIN clients # {}

\* C25: ValidateAccess called with the configured key and a non-empty client
\* id returns true; a known caller gets lastSeen = now and one request more,
\* keeping firstSeen and its limiter; an unknown caller gets a record with
\* firstSeen = lastSeen = now, count 1 and a full limiter; the records and
\* limiters of the other callers are unchanged.
C25_AcceptedAccessUpdatesCaller ==
    [][\A c \in ClientIDs :
          AuthValidate(AccessKey, c) =>
              /\ aret'.ret = TRUE
              /\ DOMAIN clients' = DOMAIN clients \cup {c}
              /\ DOMAIN rateLimiters' = DOMAIN rateLimiters \cup {c}
              /\ \A o \in DOMAIN clients \ {c} :
                     clients'[o] = clients[o] /\ rateLimiters'[o] = rateLimiters[o]
              /\ IF c \in DOMAIN clients
                 THEN /\ clients'[c].lastSeen = now
                      /\ clients'[c].count = clients[c].count + 1
                      /\ clients'[c].firstSeen = clients[c].firstSeen
                      /\ rateLimiters'[c] = rateLimiters[c]
                 ELSE /\ clients'[c] = [firstSeen |-> now, lastSeen |-> now, count |-> 1]
                      /\ rateLimiters'[c].tokens = RateBurst]_vars

\* A known caller was seen again, later than first, after spending a token,
\* while another caller has a record.
C25_Witness ==
    \E c, o \in ClientIDs :
        /\ c # o
        /\ {c, o} \subseteq DOMAIN clients
        /\ clients[c].count > 1
        /\ clients[c].lastSeen > clients[c].firstSeen
        /\ rateLimiters[c].tokens < RateBurst
        /\ aret = [call |-> "ValidateAccess", ret |-> TRUE]

\* C26 as stated: a caller whose limiter is younger than RateBurst / RateLimit
\* has had at most RateBurst calls of CheckRateLimit allowed.
C26_ExcessRejected ==
    \A c \in DOMAIN granted :
        (now - clients[c].firstSeen) * RateLimit < RateBurst => granted[c] <= RateBurst

\* C26, amended: a bucket never holds more than RateBurst tokens, and a caller
\* has had at most RateBurst + RateLimit * (age of its limiter) calls allowed;
\* a call is refused exactly when the bucket, refilled for the time since the
\* last allowed call, holds no token, and then changes nothing; a call made
\* 1 / RateLimit or more after the last allowed one is allowed.
C26_BucketBound ==
    /\ [](\A c \in DOMAIN rateLimiters :
            /\ rateLimiters[c].tokens \in 0..RateBurst
            /\ granted[c] <= RateBurst + RateLimit * (now - clients[c].firstSeen))
    /\ [][\A c \in DOMAIN rateLimiters :
             AuthCheckRate(c) =>
                 LET l == rateLimiters[c] IN
                 /\ aret'.ret = (l.tokens + (now - l.last) * RateLimit >= 1)
                 /\ (now - l.last) * RateLimit >= 1 => aret'.ret
                 /\ aret'.ret => granted'[c] = granted[c] + 1
                 /\ ~aret'.ret => UNCHANGED <<clients, rateLimiters>>]_vars

\* A caller spent its burst, was allowed once more after a refill, and is
\* refused now.
C26_Witness ==
    \E c \in DOMAIN granted :
        /\ granted[c] = RateBurst + 1
        /\ rateLimiters[c].tokens = 0
        /\ aret = [call |-> "CheckRateLimit", ret |-> FALSE]

\* C27: CheckRateLimit for a caller that has no limiter, never authenticated
\* or already swept, returns true and creates neither a limiter nor a record.
C27_NoLimiterIsAllowed ==
    [][\A c \in CallerIDs :
          (AuthCheckRate(c) /\ c \notin DOMAIN rateLimiters) =>
              /\ aret'.ret = TRUE
              /\ UNCHANGED <<clients, rateLimiters>>]_vars

\* CheckRateLimit was called, late enough for a sweep to have removed a
\* caller, while no caller has a limiter.
C27_Witness ==
    /\ aret = [call |-> "CheckRateLimit", ret |-> TRUE]
    /\ DOMAIN rateLimiters = {}
    /\ now > MaxAge

\* C28: one sweep removes exactly the records last seen more than MaxAge ago,
\* each with its limiter, and leaves every other record and limiter as it
\* was; a record and its limiter always go together.
C28_SweepRemovesStale ==
    /\ [](DOMAIN clients = DOMAIN rateLimiters)
    /\ [][ClientSweep =>
             /\ DOMAIN clients' \subseteq DOMAIN clients
             /\ \A c \in DOMAIN clients :
                    IF now - clients[c].lastSeen > MaxAge
                    THEN c \notin DOMAIN clients' /\ c \notin DOMAIN rateLimiters'
                    ELSE /\ c \in DOMAIN clients'
                         /\ clients'[c] = clients[c]
                         /\ rateLimiters'[c] = rateLimiters[c]]_vars

\* The last sweep removed a record and kept one that is exactly MaxAge old.
C28_Witness ==
    /\ aret = [call |-> "CleanupOldClients", ret |-> TRUE]
    /\ \E c \in DOMAIN clients : now - clients[c].lastSeen = MaxAge

\* The request of handler h has reached the ChatService: SendMessage is about
\* to run or has answered, WaitForMessages is suspended or has answered.
ReachedBroker(h) ==
    \/ hpc[h] \in {"send", "suspended"}
    \/ hpc[h] = "done" /\ hresp[h] \in {"200", "204", "500"}

\* C29: a request reaches SendMessage or WaitForMessages only after its
\* caller has passed ValidateAccess and CheckRateLimit.
C29_BrokerBehindBothChecks ==
    \A h \in Handlers :
        ReachedBroker(h) => hclient[h] # EmptyClient /\ hrate[h] = "allowed"

\* C30: when a publish is answered 429, the record and the limiter of its
\* caller are what they were when the request came in.
C30_RateLimitedChangesNothing ==
    \A h \in PublishHandlers :
        hresp[h] = "429" =>
            hbefore[h] = <<Only(clients, hclient[h]), Only(rateLimiters, hclient[h])>>

\* --------------------------------------------------------------- C31 .. C40
\* C36: in every reachable state of the AuthService the callers that have a
\* client record are exactly the callers that have a limiter, whatever the
\* interleaving of ValidateAccess, CheckRateLimit and the sweep.
C36_RecordsMatchLimiters ==
    DOMAIN clients = DOMAIN rateLimiters

\* A sweep has removed one caller's record while another caller keeps its own.
C36_Witness ==
    /\ aret = [call |-> "CleanupOldClients", ret |-> TRUE]
    /\ DOMAIN clients # {}
    /\ ClientIDs \ DOMAIN rateLimiters # {}

\* C32: between its first, empty read and its registration a WaitForMessages
\* call has no entry in the registry and its channel gets no signal, so a
\* Send whose Add and notifyWaiters both fall in that gap does not wake it;
\* the timeout then returns the empty result whatever the store holds.
C32_SendInTheGapIsMissed ==
    /\ [](\A p \in Pollers :
            wpc[p] = "register" =>
                chan[p] = <<>> /\ \A c \in ClientIDs : waiters[c] # p)
    /\ [][\A p \in Pollers :
             (wpc[p] = "register" /\ wpc'[p] = "register") => chan'[p] = <<>>]_vars
    /\ [][\A p \in Pollers : WaitTimeout(p) => wresult'[p] = <<>>]_vars

\* A call timed out empty-handed and was never signaled, although the store
\* holds a message newer than its cursor and no Send is still under way.
C32_Witness ==
    \E p \in Pollers :
        /\ wpc[p] \in {"defer", "close", "returned"}
        /\ wvia[p] = "timeout"
        /\ wresult[p] = <<>>
        /\ chan[p] = <<>>
        /\ Len(GetAfter(messages, wafter[p], ReadLimit)) > 0
        /\ \A s \in Senders : spc[s] = "idle"

\* C33: no interleaving signals a closed handle or closes a handle twice:
\* every handle in the registry is open, notifyWaiters sends only on handles
\* in the registry, and a handle is closed once, when it is no longer there.
C33_NoSignalOnClosedNoDoubleClose ==
    /\ [](\A c \in ClientIDs : waiters[c] # NoPoller => ~closed[waiters[c]])
    /\ [][\A s \in Senders, c \in ClientIDs :
             NotifyOne(s, c) => waiters[c] # NoPoller /\ ~closed[waiters[c]]]_vars
    /\ [][\A p \in Pollers :
             WaitClose(p) => ~closed[p] /\ \A c \in ClientIDs : waiters[c] # p]_vars

\* Two calls shared a caller id: one has closed its handle and removed the
\* entry of the other, which is still suspended.
C33_Witness ==
    \E p, q \in Pollers :
        /\ p # q
        /\ wclient[p] = wclient[q]
        /\ closed[p]
        /\ wpc[q] = "select"
        /\ waiters[wclient[q]] # q

\* Goroutine p is inside MessageBuffer: past the lock, not yet past the unlock.
InStore(p) ==
    /\ lprog[p] # <<>>
    /\ Head(lprog[p]).on = "store"
    /\ Head(lprog[p]).do \in {"append", "trim", "sweep", "read", "unlock", "runlock"}

\* Goroutine p is inside MessageBuffer as Add or as the sweep.
Writing(p) == InStore(p) /\ Head(lprog[p]).do \in {"append", "trim", "sweep", "unlock"}

\* C34: while Add or the sweep is inside the store no other Add, sweep or
\* read is; reads may be inside together; every read sees the slice as the
\* last whole Add or sweep left it.
C34_ReadersWriterDiscipline ==
    /\ [](\A p, q \in LockProcs : (p # q /\ Writing(p)) => ~InStore(q))
    /\ [][\A p \in LockProcs : StoreRead(p) => messages = lcommitted]_vars

\* Two reads are inside the store together, a writer waits for them, and the
\* slice they see has been through an Add that dropped the oldest message.
C34_Witness ==
    /\ \E p, q \in LockProcs : p # q /\ At(p, "read") /\ At(q, "read")
    /\ locks["store"].writer # NoProc
    /\ messages # <<>>
    /\ Len(appended) > Len(messages)

\* Goroutine p holds lock l, as the writer or as a reader.
Holds(p, l) == (locks[l].writer = p /\ locks[l].active) \/ p \in locks[l].readers

\* Goroutine p is acquiring lock l.
Wants(p, l) ==
    /\ lprog[p] # <<>>
    /\ Head(lprog[p]).on = l
    /\ Head(lprog[p]).do \in {"announce", "acquire", "rlock"}

\* The next instruction of goroutine p does not have to wait.
CanStep(p) ==
    /\ lprog[p] # <<>>
    /\ At(p, "announce") => locks[Head(lprog[p]).on].writer = NoProc
    /\ At(p, "acquire") => locks[Head(lprog[p]).on].readers = {}
    /\ At(p, "rlock") => locks[Head(lprog[p]).on].writer = NoProc

\* C35: no goroutine acquires one of the two locks while it holds the other,
\* some started operation can always take its next step, and every started
\* operation runs to its end.
C35_NoNestedLocksNoDeadlock ==
    /\ [](\A p \in LockProcs, l, m \in LockNames :
            (l # m /\ Holds(p, l)) => ~Holds(p, m) /\ ~Wants(p, m))
    /\ []((\E p \in LockProcs : lprog[p] # <<>>) => \E p \in LockProcs : CanStep(p))
    /\ \A p \in LockProcs : (lprog[p] # <<>>) ~> (lprog[p] = <<>>)

\* One goroutine holds the store lock, another the registry lock, and a
\* third waits.
C35_Witness ==
    \E p, q, r \in LockProcs :
        /\ p # q
        /\ Holds(p, "store")
        /\ Holds(q, "registry")
        /\ lprog[r] # <<>>
        /\ ~CanStep(r)

\* C31: what the client parses from the wire object of a message is that
\* message: same username, content, id and color, and nothing dropped.
C31_WireRoundTrip ==
    (wireIn # NoMsg /\ wire = NoMap) => parsedOut = <<wireIn>>

\* C40: in the client's poll loop the reconnect backoff starts at 1 second and
\* is always between 1 second and the 30-second cap; the wait after a failed
\* poll doubles it up to the cap, every successful poll (200 or 204) resets
\* it to 1 second, and nothing else changes it.
PollSucceeds ==
    \/ PollTimeout204
    \/ PollReread
    \/ (PollFirstRead /\ cpc' = "handle")

C40_BackoffBetween1And30 ==
    /\ cbackoff = 1
    /\ [](cbackoff \in 1..MaxBackoff)
    /\ [][BackoffTimer =>
            cbackoff' = IF 2 * cbackoff <= MaxBackoff THEN 2 * cbackoff ELSE MaxBackoff]_vars
    /\ [][PollSucceeds => cbackoff' = 1]_vars
    /\ [][cbackoff' # cbackoff => (BackoffTimer \/ PollSucceeds)]_vars

\* The backoff has been doubled up to the cap and the loop polls again.
C40_Witness == cbackoff = MaxBackoff /\ cpc = "polling"

\* C39: Stop is idempotent: however many calls, concurrent ones included,
\* the stop channel is closed at most once, and once the stopped flag is set
\* the channel does get closed and the poll loop returns; from then on no
\* SendMessage call that is not yet under way starts a send.
C39_StopIdempotent ==
    /\ [](ccloses <= 1)
    /\ (cstopped = 1) ~> (ccloses = 1)
    /\ (cstopped = 1) ~> (cpc = "returned")
    /\ [][cstopped = 1 =>
            \A k \in SendCalls : csendpc[k] = "idle" => csendpc'[k] = "idle"]_vars

\* Both Stop calls have returned, the channel was closed once and the poll
\* loop has returned.
C39_Witness ==
    /\ \A k \in StopCalls : cstoppc[k] = "done"
    /\ ccloses = 1
    /\ cpc = "returned"

\* C38: no message this client published is passed to its own onMessage
\* callback.
C38_OwnEchoNeverDelivered ==
    \A i \in 1..Len(cdelivered) : cdelivered[i] \notin cmine

\* C37: while the server stays reachable and the poll loop keeps running, a
\* stored message of another caller that is newer than the client's cursor
\* is eventually passed to onMessage (or leaves the store first).
IsStored(id) == \E i \in 1..Len(messages) : messages[i].id = id

IsDelivered(id) == \E i \in 1..Len(cdelivered) : cdelivered[i] = id

C37_NewerMessagesDelivered ==
    \A id \in 1..MaxSends :
        (IsStored(id) /\ id \notin cmine /\ id > clastID /\ ~IsDelivered(id))
            ~> (IsDelivered(id) \/ ~IsStored(id))

====
